---- MODULE Spec2Model ----
(***************************************************************************)
(* OTTER: transcript-primary, non-destructive audio editing.               *)
(*                                                                         *)
(* Part I   the core editing engine designed in doc/Transcript_Editing:    *)
(*          SpanModel, TranscriptDocument, the invertible commands, the    *)
(*          undo manager, EDLBuilder and TimelineMapper.                   *)
(* Part II  the shipped main-process handlers save-edl, load-edl and       *)
(*          export-edl-audio of src/main.ts, over a small file system.     *)
(*                                                                         *)
(* Indices into `order` are 0-based as in the TypeScript of the design;    *)
(* TLA+ sequences are 1-based, so position i of the code is element i+1.   *)
(***************************************************************************)
EXTENDS Integers, Sequences, FiniteSets, TLC

\* ------------------------------------------------------------------ bounds

\* Deepest undo history explored.
MaxUndo == 2

\* Longest Composite explored (sub-commands of one transaction).
MaxSubs == 2

\* Length of the source audio of the editing model, in samples.
TotalSamples == 6

\* Length of the source audio the tilings handed to EDLBuilder divide.
TileSamples == 6

\* ffmpeg children running at a time.
MaxExports == 1

\* ----------------------------------------------------------------- helpers

Range(s) == {s[i] : i \in 1..Len(s)}

Min(a, b) == IF a < b THEN a ELSE b

Max(a, b) == IF a < b THEN b ELSE a

NoDuplicates(s) == \A i, j \in 1..Len(s) : i # j => s[i] # s[j]

\* Array.prototype.splice(start, deleteCount, ...items) for start >= 0:
\* start and deleteCount are clamped to the array, as in JavaScript.
SpliceStart(s, start) == Min(start, Len(s))

SpliceCount(s, start, deleteCount) ==
    Min(Max(deleteCount, 0), Len(s) - SpliceStart(s, start))

SpliceRemoved(s, start, deleteCount) ==
    SubSeq(s, SpliceStart(s, start) + 1,
           SpliceStart(s, start) + SpliceCount(s, start, deleteCount))

Splice(s, start, deleteCount, items) ==
    SubSeq(s, 1, SpliceStart(s, start)) \o items \o
    SubSeq(s, SpliceStart(s, start) + SpliceCount(s, start, deleteCount) + 1, Len(s))

\* A map without some of its keys, and a map overridden by another.
Without(f, keys) == [k \in DOMAIN f \ keys |-> f[k]]

Override(f, g) == [k \in DOMAIN f \cup DOMAIN g |-> IF k \in DOMAIN g THEN g[k] ELSE f[k]]

\* --------------------------------------------------------------- SpanModel

Span(s, e) == [startSample |-> s, endSample |-> e]

\* Span invariant: 0 <= startSample < endSample <= media.totalSamples.
SpanValid(span, total) ==
    /\ 0 <= span.startSample
    /\ span.startSample < span.endSample
    /\ span.endSample <= total

\* A validation that takes totalSamples for the last sample a span may not
\* reach.
validateEndExclusive(span, total) ==
    IF 0 <= span.startSample /\ span.startSample < span.endSample /\ span.endSample < total
    THEN "ok" ELSE "InvalidSpan"

validate(span, total) == IF SpanValid(span, total) THEN "ok" ELSE "InvalidSpan"

\* An adjacency test that also takes a span starting before the other's end.
adjacentOrOverlapping(a, b) == a.endSample >= b.startSample

adjacent(a, b) == a.endSample = b.startSample

merge(a, b) == Span(a.startSample, b.endSample)

\* ------------------------------------------------------ TranscriptDocument

\* A word record and the document { wordsById, order }.
Word(id, text, span) == [id |-> id, text |-> text, span |-> span]

Doc(words, ord) == [wordsById |-> words, order |-> ord]

\* Outcome of a document operation: the document after it (the document it
\* was given when it failed) and what it returns to the caller.
Fail(doc, err) == [ok |-> FALSE, err |-> err, doc |-> doc, out |-> <<>>]

Done(doc, out) == [ok |-> TRUE, err |-> "ok", doc |-> doc, out |-> out]

\* deleteRange that drops the records of the removed ids as well.
deleteRangeDropsRecords(doc, startIndex, count) ==
    IF startIndex < 0 \/ count < 0 \/ startIndex + count > Len(doc.order)
    THEN Fail(doc, "IndexOutOfRange")
    ELSE Done(Doc(Without(doc.wordsById, Range(SpliceRemoved(doc.order, startIndex, count))),
                  Splice(doc.order, startIndex, count, <<>>)),
              SpliceRemoved(doc.order, startIndex, count))

\* deleteRange(startIndex, count): returns the removed ids.
deleteRange(doc, startIndex, count) ==
    IF startIndex < 0 \/ count < 0 \/ startIndex + count > Len(doc.order)
    THEN Fail(doc, "IndexOutOfRange")
    ELSE Done(Doc(doc.wordsById, Splice(doc.order, startIndex, count, <<>>)),
              SpliceRemoved(doc.order, startIndex, count))

\* insertRange that adds the new records before it checks the ids.
insertRangeAddsRecordsFirst(doc, index, ids, newWordsById, total) ==
    LET added == Doc(Override(newWordsById, doc.wordsById), doc.order) IN
    IF (\E i \in 1..Len(ids) : ids[i] \in Range(doc.order)) \/ ~NoDuplicates(ids)
    THEN Fail(added, "DuplicateWordId")
    ELSE IF index < 0 \/ index > Len(doc.order)
    THEN Fail(added, "IndexOutOfRange")
    ELSE IF \E i \in 1..Len(ids) : ids[i] \notin DOMAIN added.wordsById
    THEN Fail(added, "UnknownWord")
    ELSE Done(Doc(added.wordsById, Splice(doc.order, index, 0, ids)),
              DOMAIN newWordsById \ DOMAIN doc.wordsById)

\* insertRange(index, ids, newWordsById?): every check precedes the first
\* mutation; the word records missing from wordsById are added, then the
\* ids are spliced in.  Returns the ids of the records it added.
insertRange(doc, index, ids, newWordsById, total) ==
    IF (\E i \in 1..Len(ids) : ids[i] \in Range(doc.order)) \/ ~NoDuplicates(ids)
    THEN Fail(doc, "DuplicateWordId")
    ELSE IF index < 0 \/ index > Len(doc.order)
    THEN Fail(doc, "IndexOutOfRange")
    ELSE IF \E i \in 1..Len(ids) : ids[i] \notin DOMAIN doc.wordsById \cup DOMAIN newWordsById
    THEN Fail(doc, "UnknownWord")
    ELSE IF \E k \in DOMAIN newWordsById \ DOMAIN doc.wordsById :
                ~SpanValid(newWordsById[k].span, total)
    THEN Fail(doc, "InvalidSpan")
    ELSE Done(Doc(Override(newWordsById, doc.wordsById), Splice(doc.order, index, 0, ids)),
              DOMAIN newWordsById \ DOMAIN doc.wordsById)

\* moveRange that takes toIndex for an index into the array as it was
\* before the block was removed.
moveRangeToIndexBeforeRemoval(doc, fromIndex, count, toIndex) ==
    IF \/ fromIndex < 0 \/ count < 0 \/ toIndex < 0
       \/ fromIndex + count > Len(doc.order)
       \/ toIndex > Len(doc.order)
    THEN Fail(doc, "IndexOutOfRange")
    ELSE Done(Doc(doc.wordsById,
                  Splice(Splice(doc.order, fromIndex, count, <<>>),
                         IF toIndex > fromIndex THEN Max(toIndex - count, 0) ELSE toIndex, 0,
                         SpliceRemoved(doc.order, fromIndex, count))),
              SpliceRemoved(doc.order, fromIndex, count))

\* moveRange(fromIndex, count, toIndex): toIndex is an index into the array
\* after the block was removed.  Returns the moved ids.
moveRange(doc, fromIndex, count, toIndex) ==
    IF \/ fromIndex < 0 \/ count < 0 \/ toIndex < 0
       \/ fromIndex + count > Len(doc.order)
       \/ toIndex > Len(doc.order) - count
    THEN Fail(doc, "IndexOutOfRange")
    ELSE Done(Doc(doc.wordsById,
                  Splice(Splice(doc.order, fromIndex, count, <<>>), toIndex, 0,
                         SpliceRemoved(doc.order, fromIndex, count))),
              SpliceRemoved(doc.order, fromIndex, count))

\* The spans a span update assigns: the word's own and its neighbors'.
SpanUpdates(wordId, newSpan, neighborUpdates) ==
    <<[wordId |-> wordId, afterSpan |-> newSpan]>> \o neighborUpdates

WithSpans(words, updates) ==
    [k \in DOMAIN words |->
        IF \E i \in 1..Len(updates) : updates[i].wordId = k
        THEN [words[k] EXCEPT !.span =
                 updates[CHOOSE i \in 1..Len(updates) :
                            /\ updates[i].wordId = k
                            /\ \A j \in 1..Len(updates) : updates[j].wordId = k => j <= i].afterSpan]
        ELSE words[k]]

\* How many word records own source sample s.
Cover(words, s) ==
    Cardinality({k \in DOMAIN words :
                    words[k].span.startSample <= s /\ s < words[k].span.endSample})

\* Under the strict policy the neighbor updates account for every sample the
\* new span frees or takes: each sample is owned by as many words as before.
CoveragePreserved(before, after, total) ==
    \A s \in 0..(total - 1) : Cover(after, s) = Cover(before, s)

\* updateSpan(wordId, newSpan, neighborUpdates[]).
updateSpan(doc, wordId, newSpan, neighborUpdates, total, strict) ==
    LET ups == SpanUpdates(wordId, newSpan, neighborUpdates) IN
    IF \E i \in 1..Len(ups) : ups[i].wordId \notin DOMAIN doc.wordsById
    THEN Fail(doc, "UnknownWord")
    ELSE IF \E i \in 1..Len(ups) : validate(ups[i].afterSpan, total) # "ok"
    THEN Fail(doc, "InvalidSpan")
    ELSE IF strict /\ ~CoveragePreserved(doc.wordsById, WithSpans(doc.wordsById, ups), total)
    THEN Fail(doc, "CoverageViolation")
    ELSE Done(Doc(WithSpans(doc.wordsById, ups), doc.order), <<>>)

\* updateText(wordId, newText): pure text replacement.
updateText(doc, wordId, newText) ==
    IF wordId \notin DOMAIN doc.wordsById
    THEN Fail(doc, "UnknownWord")
    ELSE Done(Doc([doc.wordsById EXCEPT ![wordId].text = newText], doc.order), <<>>)

\* Section 3 invariants of a document.
DocInvariant(doc) ==
    /\ Range(doc.order) \subseteq DOMAIN doc.wordsById
    /\ NoDuplicates(doc.order)

\* ---------------------------------------------------------------- Commands

\* The command variants, each carrying the data that reverses it.
DeleteWordsCommand(startIndex, removedWordIds) ==
    [type |-> "deleteWords", startIndex |-> startIndex, removedWordIds |-> removedWordIds]

InsertWordsCommand(index, insertedWordIds, insertedWordsById, introducedIds) ==
    [type |-> "insertWords", index |-> index, insertedWordIds |-> insertedWordIds,
     insertedWordsById |-> insertedWordsById, introducedIds |-> introducedIds]

MoveRangeCommand(fromIndex, count, toIndex, movedWordIds) ==
    [type |-> "moveRange", fromIndex |-> fromIndex, count |-> count,
     toIndex |-> toIndex, movedWordIds |-> movedWordIds]

UpdateWordSpanCommand(wordId, beforeSpan, afterSpan, neighborAdjustments) ==
    [type |-> "updateWordSpan", wordId |-> wordId, beforeSpan |-> beforeSpan,
     afterSpan |-> afterSpan, neighborAdjustments |-> neighborAdjustments]

UpdateWordTextCommand(wordId, beforeText, afterText) ==
    [type |-> "updateWordText", wordId |-> wordId, beforeText |-> beforeText,
     afterText |-> afterText]

CompositeCommand(commands) == [type |-> "composite", commands |-> commands]

\* What the caller asks for, one verb per user-visible operation.
DeleteRequest(startIndex, count) ==
    [type |-> "deleteWords", startIndex |-> startIndex, count |-> count]

InsertRequest(index, ids, newWordsById) ==
    [type |-> "insertWords", index |-> index, insertedWordIds |-> ids,
     insertedWordsById |-> newWordsById]

MoveRequest(fromIndex, count, toIndex) ==
    [type |-> "moveRange", fromIndex |-> fromIndex, count |-> count, toIndex |-> toIndex]

SpanRequest(wordId, afterSpan, neighborUpdates) ==
    [type |-> "updateWordSpan", wordId |-> wordId, afterSpan |-> afterSpan,
     neighborUpdates |-> neighborUpdates]

TextRequest(wordId, afterText) ==
    [type |-> "updateWordText", wordId |-> wordId, afterText |-> afterText]

CompositeRequest(requests) == [type |-> "composite", commands |-> requests]

\* The request a command repeats when it is applied again (redo).
PrimitiveRequestOf(cmd) ==
    CASE cmd.type = "deleteWords" ->
           DeleteRequest(cmd.startIndex, Len(cmd.removedWordIds))
      [] cmd.type = "insertWords" ->
           InsertRequest(cmd.index, cmd.insertedWordIds, cmd.insertedWordsById)
      [] cmd.type = "moveRange" ->
           MoveRequest(cmd.fromIndex, cmd.count, cmd.toIndex)
      [] cmd.type = "updateWordSpan" ->
           SpanRequest(cmd.wordId, cmd.afterSpan,
                       [i \in 1..Len(cmd.neighborAdjustments) |->
                           [wordId |-> cmd.neighborAdjustments[i].wordId,
                            afterSpan |-> cmd.neighborAdjustments[i].afterSpan]])
      [] cmd.type = "updateWordText" ->
           TextRequest(cmd.wordId, cmd.afterText)

RequestOf(cmd) ==
    IF cmd.type = "composite"
    THEN CompositeRequest([i \in 1..Len(cmd.commands) |-> PrimitiveRequestOf(cmd.commands[i])])
    ELSE PrimitiveRequestOf(cmd)

\* Outcome of applying a command: the document after it and the command
\* with its captured reversal data.
Rejected(doc, err) == [ok |-> FALSE, err |-> err, doc |-> doc, cmd |-> <<>>]

Applied(doc, cmd) == [ok |-> TRUE, err |-> "ok", doc |-> doc, cmd |-> cmd]

\* apply of a primitive command: the forward mutation on the document.
ApplyPrimitive(doc, req, total, strict) ==
    CASE req.type = "deleteWords" ->
           LET r == deleteRange(doc, req.startIndex, req.count) IN
           IF r.ok THEN Applied(r.doc, DeleteWordsCommand(req.startIndex, r.out))
           ELSE Rejected(r.doc, r.err)
      [] req.type = "insertWords" ->
           LET r == insertRange(doc, req.index, req.insertedWordIds,
                                req.insertedWordsById, total) IN
           IF r.ok THEN Applied(r.doc, InsertWordsCommand(req.index, req.insertedWordIds,
                                                          req.insertedWordsById, r.out))
           ELSE Rejected(r.doc, r.err)
      [] req.type = "moveRange" ->
           LET r == moveRange(doc, req.fromIndex, req.count, req.toIndex) IN
           IF r.ok THEN Applied(r.doc, MoveRangeCommand(req.fromIndex, req.count,
                                                        req.toIndex, r.out))
           ELSE Rejected(r.doc, r.err)
      [] req.type = "updateWordSpan" ->
           LET r == updateSpan(doc, req.wordId, req.afterSpan, req.neighborUpdates,
                               total, strict) IN
           IF r.ok
           THEN Applied(r.doc,
                  UpdateWordSpanCommand(req.wordId, doc.wordsById[req.wordId].span,
                     req.afterSpan,
                     [i \in 1..Len(req.neighborUpdates) |->
                         [wordId |-> req.neighborUpdates[i].wordId,
                          beforeSpan |-> doc.wordsById[req.neighborUpdates[i].wordId].span,
                          afterSpan |-> req.neighborUpdates[i].afterSpan]]))
           ELSE Rejected(r.doc, r.err)
      [] req.type = "updateWordText" ->
           LET r == updateText(doc, req.wordId, req.afterText) IN
           IF r.ok THEN Applied(r.doc, UpdateWordTextCommand(req.wordId,
                                          doc.wordsById[req.wordId].text, req.afterText))
           ELSE Rejected(r.doc, r.err)

\* unapply of InsertWords: the ids leave `order`; with the optional cleanup
\* the records this command introduced, and nothing references, leave
\* wordsById as well.
UnapplyInsertWords(doc, cmd, cleanup) ==
    LET ord == Splice(doc.order, cmd.index, Len(cmd.insertedWordIds), <<>>) IN
    Doc(IF cleanup THEN Without(doc.wordsById, cmd.introducedIds \ Range(ord))
        ELSE doc.wordsById,
        ord)

\* unapply of MoveRange that reinserts the block without removing it first.
UnapplyMoveRangeKeepsBlock(doc, cmd) ==
    Doc(doc.wordsById, Splice(doc.order, cmd.fromIndex, 0, cmd.movedWordIds))

\* unapply of MoveRange: remove the block from where it is, reinsert it at
\* the original fromIndex.
UnapplyMoveRange(doc, cmd) ==
    Doc(doc.wordsById,
        Splice(Splice(doc.order, cmd.toIndex, cmd.count, <<>>), cmd.fromIndex, 0,
               cmd.movedWordIds))

\* unapply of UpdateWordSpan that restores the word's own span only.
UnapplyUpdateWordSpanOwnOnly(doc, cmd) ==
    Doc(WithSpans(doc.wordsById, <<[wordId |-> cmd.wordId, afterSpan |-> cmd.beforeSpan]>>),
        doc.order)

\* unapply of UpdateWordSpan: restore beforeSpan and the neighbors' beforeSpan.
UnapplyUpdateWordSpan(doc, cmd) ==
    Doc(WithSpans(doc.wordsById,
           <<[wordId |-> cmd.wordId, afterSpan |-> cmd.beforeSpan]>> \o
           [i \in 1..Len(cmd.neighborAdjustments) |->
               [wordId |-> cmd.neighborAdjustments[i].wordId,
                afterSpan |-> cmd.neighborAdjustments[i].beforeSpan]]),
        doc.order)

\* unapply whose DeleteWords puts the removed ids back at the end of `order`.
UnapplyPrimitiveDeleteAtEnd(doc, cmd, cleanup) ==
    CASE cmd.type = "deleteWords" ->
           Doc(doc.wordsById, doc.order \o cmd.removedWordIds)
      [] cmd.type = "insertWords" -> UnapplyInsertWords(doc, cmd, cleanup)
      [] cmd.type = "moveRange" -> UnapplyMoveRange(doc, cmd)
      [] cmd.type = "updateWordSpan" -> UnapplyUpdateWordSpan(doc, cmd)
      [] cmd.type = "updateWordText" ->
           Doc([doc.wordsById EXCEPT ![cmd.wordId].text = cmd.beforeText], doc.order)

\* unapply of a primitive command: the exact reverse, from captured data.
UnapplyPrimitive(doc, cmd, cleanup) ==
    CASE cmd.type = "deleteWords" ->
           Doc(doc.wordsById, Splice(doc.order, cmd.startIndex, 0, cmd.removedWordIds))
      [] cmd.type = "insertWords" -> UnapplyInsertWords(doc, cmd, cleanup)
      [] cmd.type = "moveRange" -> UnapplyMoveRange(doc, cmd)
      [] cmd.type = "updateWordSpan" -> UnapplyUpdateWordSpan(doc, cmd)
      [] cmd.type = "updateWordText" ->
           Doc([doc.wordsById EXCEPT ![cmd.wordId].text = cmd.beforeText], doc.order)

\* unapply of the first k sub-commands, first one first.
RECURSIVE UnapplyInApplyOrder(_, _, _, _)
UnapplyInApplyOrder(doc, commands, k, cleanup) ==
    IF k = 0 THEN doc
    ELSE UnapplyPrimitive(UnapplyInApplyOrder(doc, commands, k - 1, cleanup), commands[k], cleanup)

\* unapply of the first k sub-commands, last one first.
RECURSIVE UnapplyReverse(_, _, _, _)
UnapplyReverse(doc, commands, k, cleanup) ==
    IF k = 0 THEN doc
    ELSE UnapplyReverse(UnapplyPrimitive(doc, commands[k], cleanup), commands, k - 1, cleanup)

\* apply of a Composite that stops at the failing sub-command and leaves
\* the earlier ones applied.
RECURSIVE ApplySubCommandsNoRollback(_, _, _, _, _, _, _)
ApplySubCommandsNoRollback(doc, requests, i, done, total, strict, cleanup) ==
    IF i > Len(requests) THEN Applied(doc, CompositeCommand(done))
    ELSE LET r == ApplyPrimitive(doc, requests[i], total, strict) IN
         IF r.ok
         THEN ApplySubCommandsNoRollback(r.doc, requests, i + 1, Append(done, r.cmd),
                                         total, strict, cleanup)
         ELSE Rejected(doc, r.err)

\* apply of a Composite from sub-command i on, `done` being the commands of
\* the sub-commands already applied: a failure rolls those back in reverse.
RECURSIVE ApplySubCommands(_, _, _, _, _, _, _)
ApplySubCommands(doc, requests, i, done, total, strict, cleanup) ==
    IF i > Len(requests) THEN Applied(doc, CompositeCommand(done))
    ELSE LET r == ApplyPrimitive(doc, requests[i], total, strict) IN
         IF r.ok
         THEN ApplySubCommands(r.doc, requests, i + 1, Append(done, r.cmd),
                               total, strict, cleanup)
         ELSE Rejected(UnapplyReverse(doc, done, Len(done), cleanup), r.err)

\* Command.apply
ApplyCommand(doc, req, total, strict, cleanup) ==
    IF req.type = "composite"
    THEN ApplySubCommands(doc, req.commands, 1, <<>>, total, strict, cleanup)
    ELSE ApplyPrimitive(doc, req, total, strict)

\* Command.unapply
UnapplyCommand(doc, cmd, cleanup) ==
    IF cmd.type = "composite"
    THEN UnapplyReverse(doc, cmd.commands, Len(cmd.commands), cleanup)
    ELSE UnapplyPrimitive(doc, cmd, cleanup)

\* -------------------------------------------------------------- EDLBuilder

Segment(s, e) == [sourceStart |-> s, sourceEnd |-> e]

Duration(seg) == seg.sourceEnd - seg.sourceStart

\* Walk `order` opening a new segment for every span.
RECURSIVE WalkOrderNoMerge(_, _, _, _)
WalkOrderNoMerge(words, ord, i, segments) ==
    IF i > Len(ord) THEN segments
    ELSE WalkOrderNoMerge(words, ord, i + 1,
                          Append(segments, Segment(words[ord[i]].span.startSample,
                                                   words[ord[i]].span.endSample)))

\* Walk `order` extending the open segment over any span that starts at or
\* after its end, the gap between them included.
RECURSIVE WalkOrderBridgesGaps(_, _, _, _)
WalkOrderBridgesGaps(words, ord, i, segments) ==
    IF i > Len(ord) THEN segments
    ELSE LET span == words[ord[i]].span
             n == Len(segments) IN
         IF n > 0 /\ segments[n].sourceEnd <= span.startSample
         THEN WalkOrderBridgesGaps(words, ord, i + 1,
                  [segments EXCEPT ![n] = Segment(segments[n].sourceStart, span.endSample)])
         ELSE WalkOrderBridgesGaps(words, ord, i + 1,
                  Append(segments, Segment(span.startSample, span.endSample)))

\* Walk `order`: a span adjacent to the open segment extends it, any other
\* span closes it and opens a new segment.
RECURSIVE WalkOrder(_, _, _, _)
WalkOrder(words, ord, i, segments) ==
    IF i > Len(ord) THEN segments
    ELSE LET span == words[ord[i]].span
             n == Len(segments) IN
         IF n > 0 /\ adjacent(Span(segments[n].sourceStart, segments[n].sourceEnd), span)
         THEN WalkOrder(words, ord, i + 1,
                        [segments EXCEPT ![n] =
                            Segment(merge(Span(segments[n].sourceStart, segments[n].sourceEnd),
                                          span).startSample,
                                    merge(Span(segments[n].sourceStart, segments[n].sourceEnd),
                                          span).endSample)])
         ELSE WalkOrder(words, ord, i + 1,
                        Append(segments, Segment(span.startSample, span.endSample)))

\* The ids of `ord` by ascending span start.
RECURSIVE SourceOrder(_, _)
SourceOrder(words, ids) ==
    IF ids = {} THEN <<>>
    ELSE LET first == CHOOSE k \in ids :
                          \A j \in ids : words[k].span.startSample <= words[j].span.startSample
         IN <<first>> \o SourceOrder(words, ids \ {first})

\* EDLBuilder that walks the words in source order instead of `order`.
EDLBuilderSourceOrder(doc) ==
    WalkOrder(doc.wordsById, SourceOrder(doc.wordsById, Range(doc.order)), 1, <<>>)

EDLBuilder(doc) == WalkOrder(doc.wordsById, doc.order, 1, <<>>)

\* ---------------------------------------------------------- TimelineMapper

\* editedOffset[i] = sum of durations[0..i)
RECURSIVE PrefixSum(_, _)
PrefixSum(segments, i) ==
    IF i = 0 THEN 0 ELSE PrefixSum(segments, i - 1) + Duration(segments[i])

\* id -> (segmentIndex, sourceOffset), re-walking `order` alongside the
\* segment boundaries: the word that ends a segment is followed by the next.
RECURSIVE WalkWords(_, _, _, _, _, _)
WalkWords(words, ord, segments, i, k, index) ==
    IF i > Len(ord) THEN index
    ELSE LET span == words[ord[i]].span IN
         WalkWords(words, ord, segments, i + 1,
                   IF span.endSample = segments[k].sourceEnd THEN k + 1 ELSE k,
                   (ord[i] :> [segmentIndex |-> k - 1,
                               sourceOffset |-> span.startSample - segments[k].sourceStart])
                   @@ index)

TimelineMapper(segments, doc) ==
    [editedOffset |-> [i \in 0..Len(segments) |-> PrefixSum(segments, i)],
     wordIndex |-> WalkWords(doc.wordsById, doc.order, segments, 1, 1, <<>>)]

\* Total edited duration: the last prefix sum.
TotalDuration(segments) == PrefixSum(segments, Len(segments))

\* A search that takes a boundary between two segments for the end of the
\* earlier one.
RECURSIVE BinarySearchBoundaryToEarlier(_, _, _, _)
BinarySearchBoundaryToEarlier(offsets, t, lo, hi) ==
    IF lo >= hi THEN lo
    ELSE LET mid == (lo + hi + 1) \div 2 IN
         IF offsets[mid] < t
         THEN BinarySearchBoundaryToEarlier(offsets, t, mid, hi)
         ELSE BinarySearchBoundaryToEarlier(offsets, t, lo, mid - 1)

\* Binary search over the prefix sums: the last index of lo..hi whose
\* offset is at most t.
RECURSIVE BinarySearch(_, _, _, _)
BinarySearch(offsets, t, lo, hi) ==
    IF lo >= hi THEN lo
    ELSE LET mid == (lo + hi + 1) \div 2 IN
         IF offsets[mid] <= t
         THEN BinarySearch(offsets, t, mid, hi)
         ELSE BinarySearch(offsets, t, lo, mid - 1)

\* editedTimeToSource(t): the segment whose prefix-sum interval holds t, and
\* the source sample at that offset within it.
editedTimeToSource(segments, tm, t) ==
    IF t < 0 \/ t >= tm.editedOffset[Len(segments)]
    THEN [ok |-> FALSE, err |-> "OutOfRange", segmentIndex |-> 0, sourceTime |-> 0]
    ELSE LET i == BinarySearch(tm.editedOffset, t, 0, Len(segments) - 1)
         IN [ok |-> TRUE, err |-> "ok", segmentIndex |-> i,
             sourceTime |-> segments[i + 1].sourceStart + (t - tm.editedOffset[i])]

\* wordToEditedTime(wordId): a lookup in the word index, which holds the
\* ids of `order`; the edited time is the segment's offset plus the word's
\* offset within the segment.
wordToEditedTime(segments, tm, wordId) ==
    IF wordId \notin DOMAIN tm.wordIndex
    THEN [ok |-> FALSE, err |-> "UnknownWord", editedTime |-> 0]
    ELSE [ok |-> TRUE, err |-> "ok",
          editedTime |-> tm.editedOffset[tm.wordIndex[wordId].segmentIndex]
                         + tm.wordIndex[wordId].sourceOffset]

\* ------------------------------------------------ CommandEngine / UndoManager

\* The engine's state: the document, both stacks and the derived state.
EngineState(doc, undo, redo, segments, tm) ==
    [doc |-> doc, undoStack |-> undo, redoStack |-> redo, edl |-> segments, mapper |-> tm]

Outcome(ok, err, eng) == [ok |-> ok, err |-> err, eng |-> eng]

\* EDLBuilder + TimelineMapper recomputation, the side effect of every
\* apply/unapply.
Recompute(doc, undo, redo) ==
    EngineState(doc, undo, redo, EDLBuilder(doc), TimelineMapper(EDLBuilder(doc), doc))

\* apply that pushes the command and leaves redoStack as it is.
EngineApplyKeepsRedo(eng, req, total, strict, cleanup) ==
    LET r == ApplyCommand(eng.doc, req, total, strict, cleanup) IN
    IF r.ok
    THEN Outcome(TRUE, "ok", Recompute(r.doc, Append(eng.undoStack, r.cmd), eng.redoStack))
    ELSE Outcome(FALSE, r.err, Recompute(r.doc, eng.undoStack, eng.redoStack))

\* apply(cmd): forward mutation, push onto undoStack, clear redoStack.
EngineApply(eng, req, total, strict, cleanup) ==
    LET r == ApplyCommand(eng.doc, req, total, strict, cleanup) IN
    IF r.ok
    THEN Outcome(TRUE, "ok", Recompute(r.doc, Append(eng.undoStack, r.cmd), <<>>))
    ELSE Outcome(FALSE, r.err, Recompute(r.doc, eng.undoStack, eng.redoStack))

\* undo that unapplies the command and forgets it.
EngineUndoDropsCommand(eng, cleanup) ==
    IF eng.undoStack = <<>>
    THEN Outcome(FALSE, "NothingToUndo", eng)
    ELSE Outcome(TRUE, "ok",
                 Recompute(UnapplyCommand(eng.doc, eng.undoStack[Len(eng.undoStack)], cleanup),
                           SubSeq(eng.undoStack, 1, Len(eng.undoStack) - 1),
                           eng.redoStack))

\* undo that leaves the derived EDL and mapper as they were.
EngineUndoStale(eng, cleanup) ==
    IF eng.undoStack = <<>>
    THEN Outcome(FALSE, "NothingToUndo", eng)
    ELSE Outcome(TRUE, "ok",
                 EngineState(UnapplyCommand(eng.doc, eng.undoStack[Len(eng.undoStack)], cleanup),
                             SubSeq(eng.undoStack, 1, Len(eng.undoStack) - 1),
                             Append(eng.redoStack, eng.undoStack[Len(eng.undoStack)]),
                             eng.edl, eng.mapper))

\* redo that leaves the derived EDL and mapper as they were.
EngineRedoStale(eng, total, strict, cleanup) ==
    IF eng.redoStack = <<>>
    THEN Outcome(FALSE, "NothingToRedo", eng)
    ELSE LET cmd == eng.redoStack[Len(eng.redoStack)]
             r == ApplyCommand(eng.doc, RequestOf(cmd), total, strict, cleanup) IN
         IF r.ok
         THEN Outcome(TRUE, "ok",
                      EngineState(r.doc, Append(eng.undoStack, cmd),
                                  SubSeq(eng.redoStack, 1, Len(eng.redoStack) - 1),
                                  eng.edl, eng.mapper))
         ELSE Outcome(FALSE, r.err, Recompute(r.doc, eng.undoStack, eng.redoStack))

\* undo(): pop undoStack, unapply, push onto redoStack.
EngineUndo(eng, cleanup) ==
    IF eng.undoStack = <<>>
    THEN Outcome(FALSE, "NothingToUndo", eng)
    ELSE LET cmd == eng.undoStack[Len(eng.undoStack)] IN
         Outcome(TRUE, "ok",
                 Recompute(UnapplyCommand(eng.doc, cmd, cleanup),
                           SubSeq(eng.undoStack, 1, Len(eng.undoStack) - 1),
                           Append(eng.redoStack, cmd)))

\* redo that applies the command again and leaves it on redoStack.
EngineRedoKeepsCommand(eng, total, strict, cleanup) ==
    IF eng.redoStack = <<>>
    THEN Outcome(FALSE, "NothingToRedo", eng)
    ELSE LET cmd == eng.redoStack[Len(eng.redoStack)]
             r == ApplyCommand(eng.doc, RequestOf(cmd), total, strict, cleanup) IN
         IF r.ok
         THEN Outcome(TRUE, "ok", Recompute(r.doc, Append(eng.undoStack, cmd), eng.redoStack))
         ELSE Outcome(FALSE, r.err, Recompute(r.doc, eng.undoStack, eng.redoStack))

\* redo(): pop redoStack, apply, push onto undoStack.
EngineRedo(eng, total, strict, cleanup) ==
    IF eng.redoStack = <<>>
    THEN Outcome(FALSE, "NothingToRedo", eng)
    ELSE LET cmd == eng.redoStack[Len(eng.redoStack)]
             r == ApplyCommand(eng.doc, RequestOf(cmd), total, strict, cleanup) IN
         IF r.ok
         THEN Outcome(TRUE, "ok",
                      Recompute(r.doc, Append(eng.undoStack, cmd),
                                SubSeq(eng.redoStack, 1, Len(eng.redoStack) - 1)))
         ELSE Outcome(FALSE, r.err, Recompute(r.doc, eng.undoStack, eng.redoStack))

\* ------------------------------------------------------------------- state

VARIABLES
    wordsById,       \* TranscriptDocument.wordsById: WordId -> Word
    order,           \* TranscriptDocument.order: the edited ordering
    undoStack,       \* UndoManager.undoStack
    redoStack,       \* UndoManager.redoStack
    edl,             \* the current EDL (derived)
    mapper,          \* the current TimelineMapper (derived)
    media,           \* MediaRef of the source audio
    strictCoverage,  \* configuration: strict (TRUE) or permissive span policy
    cleanupOnUndo,   \* configuration: InsertWords unapply removes introduced records
    last,            \* the operation that returned last, its outcome and, when
                     \* it was an accepted apply, the request it was given
    undoPre,         \* for each command on undoStack, the document it was applied
                     \* to and the EDL observed with it
    opened,          \* how many project files the session has opened
    openTransaction, \* UndoManager.openTransaction: the transaction being recorded
    activeProcess,   \* main process: the child transcribe-audio spawned last
    python,          \* the python child process, as the operating system has it
    pending,         \* the promise of the transcribe-audio call
    words,           \* renderer: the transcript word list
    btnTranscribe,   \* renderer: the Transcribe button and the click handler behind it
    stderrPipe,      \* the chunks of the child's stderr that Node has yet to deliver
    written,         \* what the transcriber has written to stderr
    sent,            \* the events event.sender.send has sent to the renderer, in order
    argv,            \* the spec arguments of the transcriber spawned last
    specFile,        \* read-spec-file: the name it was last given, the path it read
    earlier,         \* main process: a child of an earlier transcribe-audio call
                     \* that has not closed, and the promise of that call
    audioPath,       \* renderer: the audio file chosen
    transcribedFrom, \* the audio file the transcriber was given for `words'
    transcriptEl,    \* renderer: the word spans in the transcript element, each
                     \* with the word its click handler closed over
    selectionStart,  \* renderer: first index of the selected range
    selectionEnd,    \* renderer: last index of the selected range
    selectionAnchor, \* renderer: the index a shift-click extends from
    playheadIndex,   \* renderer: the index of the word under the playhead
    computedFrom,    \* the audio files from whose transcripts the selection and
                     \* the playhead index were computed
    ws,              \* renderer: the main WaveSurfer player
    wsDetail,        \* renderer: the detail WaveSurfer player
    snippets,        \* the make-snippet calls loadDetailForRange awaits
    detailWinStartAbs, \* renderer: where the detail window starts in the audio
    detailRegion,    \* renderer: the region highlighted in the detail view
    regionStopTimer, \* renderer: the handle of the timer that ends a Play Region
                     \* playback, or null
    timers,          \* the timeouts pending in the renderer's event loop
    clicked,         \* the word clicks so far, and the range the last one selected
    candidate,       \* a transcript handed to EDLBuilder on its own
    built,           \* what EDLBuilder returned for it
    disk,            \* the file system: the content of each file
    children,        \* the ffmpeg child processes export-edl-audio awaits
    reply            \* what the last IPC handler to settle returned or threw

engineVars == <<wordsById, order, undoStack, redoStack, edl, mapper, media,
                strictCoverage, cleanupOnUndo, last, undoPre, opened, openTransaction>>

transcribeVars == <<activeProcess, python, pending, words, btnTranscribe>>

rendererVars == <<stderrPipe, written, sent, argv, specFile>>

builderVars == <<candidate, built>>

mainVars == <<disk, children, reply>>

selectionVars == <<selectionStart, selectionEnd, selectionAnchor, playheadIndex,
                  computedFrom>>

detailVars == <<wsDetail, snippets, detailWinStartAbs, detailRegion, regionStopTimer,
               timers, clicked>>

viewVars == <<audioPath, transcribedFrom, transcriptEl, ws, selectionVars, detailVars>>

uiVars == <<earlier, viewVars>>

vars == <<engineVars, builderVars, mainVars, transcribeVars, rendererVars, uiVars>>

CurrentDoc == Doc(wordsById, order)

\* What an observer sees between operations: the document and its EDL.
Observed == [wordsById |-> wordsById, order |-> order, edl |-> edl]

Engine == EngineState(CurrentDoc, undoStack, redoStack, edl, mapper)

\* The transcript as imported: three words tiling the source in source order.
ImportedWords ==
    ("w1" :> Word("w1", "Hello", Span(0, 2))) @@
    ("w2" :> Word("w2", "world", Span(2, 4))) @@
    ("w3" :> Word("w3", "demo", Span(4, TotalSamples)))

ImportedOrder == <<"w1", "w2", "w3">>

\* A word record pasted from another project.
PastedWords == ("w4" :> Word("w4", "pasted", Span(1, 3)))

WordIds == DOMAIN ImportedWords \cup DOMAIN PastedWords

\* The files of the model.  The source audio has two names (a second hard
\* link or a symbolic link to it): Resolve gives the file a path names.
SourcePath == "talk.wav"

LinkPath == "talk-link.wav"

ExportPath == "export.wav"

ProjectPath == "untitled.otter-edl.json"

Paths == {SourcePath, LinkPath, ExportPath, ProjectPath}

Resolve(path) == IF path = LinkPath THEN SourcePath ELSE path

Files == {Resolve(p) : p \in Paths}

\* type EdlEntry, type Edl
EdlEntry(id, sourceStart, sourceEnd, label, muted) ==
    [id |-> id, sourceStart |-> sourceStart, sourceEnd |-> sourceEnd,
     label |-> label, muted |-> muted]

Edl(sourceFile, entries) ==
    [version |-> 1, sourceFile |-> sourceFile, entries |-> entries,
     createdAt |-> "2024-01-01", modifiedAt |-> "2024-01-01"]

\* The UTF-16 code units of a string, by class: an ASCII character, a
\* character of two UTF-8 bytes, the high and the low half of a surrogate
\* pair.  The pasted word stands for text outside ASCII.
CodeUnits(str) ==
    IF str = "pasted" THEN <<"ascii", "bmp", "hi", "lo">> ELSE <<"ascii">>

RECURSIVE Flatten(_)
Flatten(seqs) == IF seqs = <<>> THEN <<>> ELSE Head(seqs) \o Flatten(Tail(seqs))

\* The strings a JSON value holds: the labels of an EDL's entries, the texts
\* of a project's words.
JsonStrings(value) ==
    IF "entries" \in DOMAIN value
    THEN [i \in 1..Len(value.entries) |-> value.entries[i].label]
    ELSE [i \in 1..Len(value.transcript.wordsById) |-> value.transcript.wordsById[i].word.text]

\* A text: either JSON.stringify of a value, with the value JSON.parse
\* gives for it and its code units, or something JSON.parse rejects.
JsonText(value) ==
    [valid |-> TRUE, edl |-> value,
     units |-> Flatten([i \in 1..Len(JsonStrings(value)) |-> CodeUnits(JsonStrings(value)[i])])]

BrokenText == [valid |-> FALSE, edl |-> Edl("", <<>>), units |-> <<"ascii">>]

\* Buffer.from(string, "utf-8"): one byte for ASCII, two for the two-byte
\* character, four for a surrogate pair, and the three bytes of U+FFFD for
\* a surrogate without its pair.
RECURSIVE Utf8Encode(_)
Utf8Encode(units) ==
    IF units = <<>> THEN <<>>
    ELSE IF Head(units) = "ascii" THEN <<"41">> \o Utf8Encode(Tail(units))
    ELSE IF Head(units) = "bmp" THEN <<"c3", "a9">> \o Utf8Encode(Tail(units))
    ELSE IF Head(units) = "hi" /\ Len(units) > 1 /\ units[2] = "lo"
    THEN <<"f0", "9f", "8e", "99">> \o Utf8Encode(Tail(Tail(units)))
    ELSE <<"ef", "bf", "bd">> \o Utf8Encode(Tail(units))

\* A decoder that takes every byte for one character (latin1).
RECURSIVE Utf8DecodeLatin1(_)
Utf8DecodeLatin1(bytes) ==
    IF bytes = <<>> THEN <<>>
    ELSE <<IF Head(bytes) = "41" THEN "ascii" ELSE "bmp">> \o Utf8DecodeLatin1(Tail(bytes))

\* buffer.toString("utf-8"): the lead byte tells the length of a character;
\* four bytes decode to a surrogate pair, ef bf bd to U+FFFD.
RECURSIVE Utf8Decode(_)
Utf8Decode(bytes) ==
    IF bytes = <<>> THEN <<>>
    ELSE IF Head(bytes) = "41" THEN <<"ascii">> \o Utf8Decode(Tail(bytes))
    ELSE IF Head(bytes) = "c3" THEN <<"bmp">> \o Utf8Decode(SubSeq(bytes, 3, Len(bytes)))
    ELSE IF Head(bytes) = "f0" THEN <<"hi", "lo">> \o Utf8Decode(SubSeq(bytes, 5, Len(bytes)))
    ELSE <<"fffd">> \o Utf8Decode(SubSeq(bytes, 4, Len(bytes)))

\* What a file holds: nothing, the imported audio, a text, a WAV rendering
\* of source ranges, or a WAV that ffmpeg left unfinished.
FileContent(kind, text, segments) == [kind |-> kind, text |-> text, segments |-> segments]

Absent == FileContent("absent", BrokenText, <<>>)

OriginalAudio == FileContent("audio", BrokenText, <<>>)

\* fs.writeFileSync(path, text, "utf-8"): the file holds the text's bytes.
TextFile(text) == FileContent("text", [text EXCEPT !.units = Utf8Encode(@)], <<>>)

\* fs.readFileSync(path, "utf-8"): the string the file's bytes decode to.
ReadUtf8(file) ==
    IF file.kind = "text" THEN [file EXCEPT !.text.units = Utf8Decode(@)] ELSE file

WavFile(segments) == FileContent("wav", BrokenText, segments)

PartialWav == FileContent("partial", BrokenText, <<>>)

InitialDisk == [f \in Files |-> IF f = SourcePath THEN OriginalAudio ELSE Absent]

\* What a handler's promise settles with: null, a path, { path, content },
\* or an Error.
Reply(handler, result, path, content, error) ==
    [handler |-> handler, result |-> result, path |-> path, content |-> content,
     error |-> error]

NoReply == Reply("none", "null", "", Absent, "")

\* EDLBuilder has not been called on the candidate.
NotBuilt == [done |-> FALSE, segments |-> <<>>]

\* ------------------------------------------------------------------ inputs

\* Requests are drawn for the current document: some the document accepts
\* and some it rejects (a range past the end, an id already in `order`, an
\* empty span, an unaccounted gap under the strict policy).
Tombstones(doc) == DOMAIN doc.wordsById \ Range(doc.order)

DeleteRequests(doc) == {DeleteRequest(0, 1), DeleteRequest(Len(doc.order), 1)}

InsertRequests(doc) ==
    {InsertRequest(Len(doc.order), <<id>>, <<>>) : id \in Tombstones(doc)}
    \cup {InsertRequest(0, <<"w4">>, PastedWords)}
    \cup {InsertRequest(0, <<"w4", doc.order[i]>>, PastedWords) :
             i \in {1} \cap DOMAIN doc.order}

MoveRequests(doc) ==
    {MoveRequest(0, 1, Len(doc.order) - 1), MoveRequest(0, 2, Len(doc.order) - 1)}

\* Boundary refinements of the last word of `order`: the start moved one
\* sample later, alone or with the word that ends there extended to match;
\* and an empty span.
SpanRequests(doc) ==
    UNION {LET sp == doc.wordsById[doc.order[i]].span
               before == {n \in DOMAIN doc.wordsById \ {doc.order[i]} :
                             doc.wordsById[n].span.endSample = sp.startSample}
           IN {SpanRequest(doc.order[i], Span(sp.startSample + 1, sp.endSample), <<>>),
               SpanRequest(doc.order[i], Span(sp.endSample, sp.endSample), <<>>)}
              \cup {SpanRequest(doc.order[i], Span(sp.startSample + 1, sp.endSample),
                       <<[wordId |-> n,
                          afterSpan |-> Span(doc.wordsById[n].span.startSample,
                                             sp.startSample + 1)]>>) : n \in before}
           : i \in {Len(doc.order)} \cap DOMAIN doc.order}

TextRequests(doc) ==
    {TextRequest(doc.order[i], "edited") : i \in {1} \cap DOMAIN doc.order}

PrimitiveRequests(doc) ==
    DeleteRequests(doc) \cup InsertRequests(doc) \cup MoveRequests(doc)
    \cup SpanRequests(doc) \cup TextRequests(doc)

\* The sub-commands a transaction is composed of here.
SubRequests(doc) ==
    {DeleteRequest(0, 1), DeleteRequest(Len(doc.order), 1),
     InsertRequest(0, <<"w4">>, PastedWords)}
    \cup {InsertRequest(Len(doc.order), <<id>>, <<>>) : id \in Tombstones(doc)}

\* The document a sequence of sub-requests is composed against: each
\* sub-request is chosen for the document its predecessors leave.
RECURSIVE DocAfter(_, _, _, _)
DocAfter(doc, requests, total, strict) ==
    IF requests = <<>> THEN doc
    ELSE DocAfter(ApplyPrimitive(doc, Head(requests), total, strict).doc,
                  Tail(requests), total, strict)

RECURSIVE SubRequestSeqs(_, _, _, _)
SubRequestSeqs(doc, n, total, strict) ==
    IF n = 0 THEN {<<>>}
    ELSE UNION {{Append(rs, r) : r \in SubRequests(DocAfter(doc, rs, total, strict))}
                : rs \in SubRequestSeqs(doc, n - 1, total, strict)}

CompositeRequests(doc, total, strict) ==
    {CompositeRequest(rs) :
        rs \in UNION {SubRequestSeqs(doc, n, total, strict) : n \in 2..MaxSubs}}

\* ------------------------------------------------------------------ engine

\* UndoManager without an open transaction.
NoTransaction == [open |-> FALSE, commands |-> <<>>, before |-> <<>>]

\* No transcription has been asked for: no child, no call, no words.
NoChild == [state |-> "none", stdout |-> 0, sigterm |-> FALSE, code |-> "null",
            signal |-> "null", cancelled |-> FALSE, run |-> 0]

NoCall == [state |-> "none", value |-> <<>>, error |-> ""]

\* No child of an earlier call.
NoEarlier == [child |-> NoChild, call |-> NoCall]

\* null, where the renderer holds an index or null.
Null == -1

\* No snippet: the detail player has loaded nothing.  A snippet is what
\* make-snippet cut (from which audio, where, how long) and the file it
\* wrote, a new one for every call.
NoSnippet == [path |-> "null", start |-> 0, dur |-> 0, file |-> 0]

\* detailRegion = null
NoRegion == [start |-> -1, end |-> -1]

\* No transcription has written anything, nothing was sent to the renderer,
\* and the renderer has the source audio chosen and nothing transcribed.
RendererIdle ==
    /\ stderrPipe = <<>>
    /\ written = <<>>
    /\ sent = <<>>
    /\ argv = [flag |-> "", path |-> <<>>]
    /\ specFile = [name |-> <<>>, read |-> <<>>]
    /\ earlier = NoEarlier
    /\ audioPath = SourcePath
    /\ transcribedFrom = "null"
    /\ transcriptEl = <<>>
    /\ selectionStart = Null
    /\ selectionEnd = Null
    /\ selectionAnchor = Null
    /\ playheadIndex = -1
    /\ computedFrom = [selection |-> "null", playhead |-> "null"]
    /\ ws = [media |-> SourcePath, time |-> 0]
    /\ wsDetail = [media |-> NoSnippet, loading |-> {}, once |-> <<>>,
                   playback |-> "paused", time |-> 0, enabled |-> FALSE, by |-> "none"]
    /\ snippets = {}
    /\ detailWinStartAbs = 0
    /\ detailRegion = NoRegion
    /\ regionStopTimer = Null
    /\ timers = {}
    /\ clicked = [count |-> 0, snippet |-> NoSnippet, region |-> NoRegion]

TranscriptionIdle ==
    /\ activeProcess = "null"
    /\ python = NoChild
    /\ pending = NoCall
    /\ words = <<>>
    /\ btnTranscribe = [disabled |-> FALSE, awaiting |-> FALSE, clicks |-> 0]

Init ==
    /\ wordsById = ImportedWords
    /\ order = ImportedOrder
    /\ undoStack = <<>>
    /\ redoStack = <<>>
    /\ edl = EDLBuilder(Doc(ImportedWords, ImportedOrder))
    /\ mapper = TimelineMapper(EDLBuilder(Doc(ImportedWords, ImportedOrder)),
                               Doc(ImportedWords, ImportedOrder))
    /\ media = [path |-> SourcePath, sampleRateHz |-> 1, totalSamples |-> TotalSamples]
    /\ strictCoverage \in BOOLEAN
    /\ cleanupOnUndo \in BOOLEAN
    /\ last = [op |-> "init", composite |-> FALSE, ok |-> TRUE, err |-> "ok", req |-> <<>>]
    /\ undoPre = <<>>
    /\ opened = 0
    /\ openTransaction = NoTransaction
    /\ TranscriptionIdle
    /\ RendererIdle
    /\ candidate = [doc |-> Doc(ImportedWords, ImportedOrder), totalSamples |-> TotalSamples]
    /\ built = NotBuilt
    /\ disk = InitialDisk
    /\ children = {}
    /\ reply = NoReply

\* The engine's state after an operation becomes the current state.
Becomes(out) ==
    /\ wordsById' = out.eng.doc.wordsById
    /\ order' = out.eng.doc.order
    /\ undoStack' = out.eng.undoStack
    /\ redoStack' = out.eng.redoStack
    /\ edl' = out.eng.edl
    /\ mapper' = out.eng.mapper

Apply(req) ==
    /\ Len(undoStack) < MaxUndo
    /\ \E out \in {EngineApply(Engine, req, media.totalSamples, strictCoverage, cleanupOnUndo)} :
       /\ Becomes(out)
       /\ last' = [op |-> "apply", composite |-> req.type = "composite", ok |-> out.ok, err |-> out.err,
                   req |-> IF out.ok THEN req ELSE <<>>]
       /\ undoPre' = IF out.ok THEN Append(undoPre, Observed) ELSE undoPre
    /\ UNCHANGED <<media, strictCoverage, cleanupOnUndo, opened, openTransaction,
                 builderVars, mainVars, transcribeVars, rendererVars, uiVars>>

ApplyPrimitiveCommand == \E req \in PrimitiveRequests(CurrentDoc) : Apply(req)

ApplyCompositeCommand ==
    \E req \in CompositeRequests(CurrentDoc, media.totalSamples, strictCoverage) : Apply(req)

Undo ==
    /\ \E out \in {EngineUndo(Engine, cleanupOnUndo)} :
       /\ Becomes(out)
       /\ last' = [op |-> "undo", composite |-> FALSE, ok |-> out.ok, err |-> out.err, req |-> <<>>]
       /\ undoPre' = IF out.ok THEN SubSeq(undoPre, 1, Len(undoPre) - 1) ELSE undoPre
    /\ UNCHANGED <<media, strictCoverage, cleanupOnUndo, opened, openTransaction,
                 builderVars, mainVars, transcribeVars, rendererVars, uiVars>>

Redo ==
    /\ \E out \in {EngineRedo(Engine, media.totalSamples, strictCoverage, cleanupOnUndo)} :
       /\ Becomes(out)
       /\ last' = [op |-> "redo", composite |-> FALSE, ok |-> out.ok, err |-> out.err, req |-> <<>>]
       /\ undoPre' = IF out.ok THEN Append(undoPre, Observed) ELSE undoPre
    /\ UNCHANGED <<media, strictCoverage, cleanupOnUndo, opened, openTransaction,
                 builderVars, mainVars, transcribeVars, rendererVars, uiVars>>

Next == ApplyPrimitiveCommand \/ ApplyCompositeCommand \/ Undo \/ Redo

Spec == Init /\ [][Next]_vars

\* ------------------------------------------------------ EDLBuilder on its own

\* The boundaries 0 < c1 < ... < total of a tiling, in increasing order.
RECURSIVE Ascending(_)
Ascending(S) ==
    IF S = {} THEN <<>>
    ELSE LET m == CHOOSE x \in S : \A y \in S : x <= y IN <<m>> \o Ascending(S \ {m})

TileIds == <<"t1", "t2", "t3", "t4", "t5", "t6", "t7">>

TileTexts == <<"Hello", "world", "this", "is", "OTTER", "demo", "end">>

\* The transcript an importer produces for word boundaries `bounds`: one
\* word per interval, listed in source order.
Tiling(bounds) ==
    Doc([id \in {TileIds[i] : i \in 1..(Len(bounds) - 1)} |->
            LET i == CHOOSE j \in 1..(Len(bounds) - 1) : TileIds[j] = id IN
            Word(id, TileTexts[i], Span(bounds[i], bounds[i + 1]))],
        [i \in 1..(Len(bounds) - 1) |-> TileIds[i]])

Reverse(s) == [i \in 1..Len(s) |-> s[Len(s) + 1 - i]]

\* The worked example of section 5.1 at 100 samples per second: Hello
\* 0-1.20, world 1.20-2.40, this 2.40-3.10, is 3.10-3.50, OTTER 3.50-5.00,
\* demo 5.00-12.00.
SixWords == Tiling(<<0, 120, 240, 310, 350, 500, 1200>>)

\* Candidates: every tiling of TileSamples samples as imported, with its
\* second word deleted, with its first word moved to the end and with its
\* order reversed; and the worked example.
Candidates ==
    {[doc |-> d, totalSamples |-> TileSamples] :
        d \in UNION {LET t == Tiling(Ascending({0, TileSamples} \cup cuts)) IN
                     {t,
                      Doc(t.wordsById, Splice(t.order, 1, 1, <<>>)),
                      Doc(t.wordsById, Splice(Splice(t.order, 0, 1, <<>>),
                                              Len(t.order) - 1, 0, <<t.order[1]>>)),
                      Doc(t.wordsById, Reverse(t.order))}
                     : cuts \in SUBSET (1..(TileSamples - 1))}}
    \cup {[doc |-> SixWords, totalSamples |-> 1200]}

BuilderInit ==
    /\ wordsById = ImportedWords
    /\ order = ImportedOrder
    /\ undoStack = <<>>
    /\ redoStack = <<>>
    /\ edl = EDLBuilder(Doc(ImportedWords, ImportedOrder))
    /\ mapper = TimelineMapper(EDLBuilder(Doc(ImportedWords, ImportedOrder)),
                               Doc(ImportedWords, ImportedOrder))
    /\ media = [path |-> SourcePath, sampleRateHz |-> 1, totalSamples |-> TotalSamples]
    /\ strictCoverage = FALSE
    /\ cleanupOnUndo = FALSE
    /\ last = [op |-> "init", composite |-> FALSE, ok |-> TRUE, err |-> "ok", req |-> <<>>]
    /\ undoPre = <<>>
    /\ opened = 0
    /\ openTransaction = NoTransaction
    /\ TranscriptionIdle
    /\ RendererIdle
    /\ candidate \in Candidates
    /\ built = NotBuilt
    /\ disk = InitialDisk
    /\ children = {}
    /\ reply = NoReply

\* EDLBuilder(doc) is called on the candidate.
BuildEdl ==
    /\ ~built.done
    /\ built' = [done |-> TRUE, segments |-> EDLBuilder(candidate.doc)]
    /\ UNCHANGED <<candidate, engineVars, mainVars, transcribeVars, rendererVars,
                   uiVars>>

BuilderNext == BuildEdl

BuilderSpec == BuilderInit /\ [][BuilderNext]_vars

\* `order` lists the words in source order and their spans tile the source:
\* the first starts at 0, each ends where the next starts, the last ends at
\* totalSamples.
TiledInSourceOrder(doc, total) ==
    /\ doc.order # <<>>
    /\ doc.wordsById[doc.order[1]].span.startSample = 0
    /\ \A i \in 1..(Len(doc.order) - 1) :
          doc.wordsById[doc.order[i]].span.endSample =
              doc.wordsById[doc.order[i + 1]].span.startSample
    /\ doc.wordsById[doc.order[Len(doc.order)]].span.endSample = total

\* C10: for a transcript whose order is the source order and whose spans
\* tile the source, the derived EDL is exactly one segment [0, totalSamples).
C10_TiledTranscriptOneSegment ==
    (built.done /\ TiledInSourceOrder(candidate.doc, candidate.totalSamples)) =>
        built.segments = <<Segment(0, candidate.totalSamples)>>

\* EDLBuilder has returned for the six-word example.
C10_Witness ==
    /\ built.done
    /\ candidate.doc = SixWords
    /\ Len(candidate.doc.order) = 6
    /\ built.segments = <<Segment(0, 1200)>>

\* ------------------------- main process: save-edl, load-edl, export-edl-audio

\* The EDLs a caller serializes: three entries of the source, out of source
\* order, the middle one muted; and the same entries all muted.
CallerEdls ==
    {Edl(SourcePath, <<EdlEntry("e1", 4, 6, "demo", allMuted),
                       EdlEntry("e2", 2, 4, "world", TRUE),
                       EdlEntry("e3", 0, 2, "Hello", allMuted)>>) :
        allMuted \in BOOLEAN}

EdlJsonInputs == {JsonText(e) : e \in CallerEdls} \cup {BrokenText}

Canceled == "<canceled>"

\* dialog.showSaveDialog: any path, or canceled.
SaveDialogResults == Paths \cup {Canceled}

\* dialog.showOpenDialog (openFile): the path of an existing file, or canceled.
OpenDialogResults == {p \in Paths : disk[Resolve(p)].kind # "absent"} \cup {Canceled}

\* ipcMain.handle("save-edl")
SaveEdlHandler(edlJson, filePath) ==
    /\ IF filePath = Canceled
       THEN /\ reply' = Reply("save-edl", "null", "", Absent, "")
            /\ disk' = disk
       ELSE /\ disk' = [disk EXCEPT ![Resolve(filePath)] = TextFile(edlJson)]
            /\ reply' = Reply("save-edl", "path", filePath, Absent, "")
    /\ UNCHANGED <<children, engineVars, builderVars, transcribeVars, rendererVars, uiVars>>

SaveEdl ==
    \E edlJson \in EdlJsonInputs, filePath \in SaveDialogResults :
        SaveEdlHandler(edlJson, filePath)

\* ipcMain.handle("load-edl")
LoadEdl ==
    \E filePath \in OpenDialogResults :
        /\ reply' = IF filePath = Canceled
                    THEN Reply("load-edl", "null", "", Absent, "")
                    ELSE Reply("load-edl", "file", filePath,
                               ReadUtf8(disk[Resolve(filePath)]), "")
        /\ UNCHANGED <<disk, children, engineVars, builderVars, transcribeVars, rendererVars, uiVars>>

\* A filter that lets every entry through.
NonMutedKeepsMuted(entries) == entries

\* (edl.entries || []).filter((e) => !e.muted)
NonMuted(entries) == SelectSeq(entries, LAMBDA e : ~e.muted)

\* The ranges the filter_complex trims and concatenates, in EDL order.
FilterComplex(entries) ==
    [i \in 1..Len(entries) |-> Segment(entries[i].sourceStart, entries[i].sourceEnd)]

\* A pending export: the EDL the handler parsed, and its ffmpeg child,
\* ffmpeg -hide_banner -y -i input -filter_complex ... output
Ffmpeg(parsed, input, segments, output, phase) ==
    [edl |-> parsed, input |-> input, segments |-> segments, output |-> output,
     phase |-> phase]

\* What "close" reports: the exit code, null when a signal ended the child.
ExitCodes == {"0", "1", "null"}

\* new Error(`ffmpeg export failed (${code}): ${err}`)
FfmpegFailed(code) ==
    IF code = "null" THEN "ffmpeg export failed (null)" ELSE "ffmpeg export failed (1)"

\* export-edl-audio without its check for an empty entry list.
ExportEdlAudioNoEmptyCheck(edlJson, filePath) ==
    /\ Cardinality(children) < MaxExports
    /\ IF ~edlJson.valid
       THEN /\ reply' = Reply("export-edl-audio", "error", "", Absent, "SyntaxError")
            /\ children' = children
       ELSE IF filePath = Canceled
       THEN /\ reply' = Reply("export-edl-audio", "null", "", Absent, "")
            /\ children' = children
       ELSE /\ children' = children \cup
                   {Ffmpeg(edlJson.edl, edlJson.edl.sourceFile,
                           FilterComplex(NonMuted(edlJson.edl.entries)),
                           filePath, "spawned")}
            /\ reply' = reply
    /\ UNCHANGED <<disk, engineVars, builderVars, transcribeVars, rendererVars, uiVars>>

\* The handler of "export-edl-audio" called with edlJson, the save dialog
\* returning filePath, up to the spawn of ffmpeg.
ExportEdlAudioHandler(edlJson, filePath) ==
    /\ Cardinality(children) < MaxExports
    /\ IF ~edlJson.valid
       THEN /\ reply' = Reply("export-edl-audio", "error", "", Absent, "SyntaxError")
            /\ children' = children
       ELSE IF NonMuted(edlJson.edl.entries) = <<>>
       THEN /\ reply' = Reply("export-edl-audio", "error", "", Absent,
                              "No non-muted segments to export.")
            /\ children' = children
       ELSE IF filePath = Canceled
       THEN /\ reply' = Reply("export-edl-audio", "null", "", Absent, "")
            /\ children' = children
       ELSE /\ children' = children \cup
                   {Ffmpeg(edlJson.edl, edlJson.edl.sourceFile,
                           FilterComplex(NonMuted(edlJson.edl.entries)),
                           filePath, "spawned")}
            /\ reply' = reply
    /\ UNCHANGED <<disk, engineVars, builderVars, transcribeVars, rendererVars, uiVars>>

\* ipcMain.handle("export-edl-audio")
ExportEdlAudio ==
    \E edlJson \in EdlJsonInputs, filePath \in SaveDialogResults :
        ExportEdlAudioHandler(edlJson, filePath)

\* ffmpeg opens its files.  It exits with an error when the input is not
\* audio it can read or when the output is named as the input is ("cannot
\* edit existing files in-place"); otherwise -y lets it truncate whatever
\* the output path names.
FfmpegOpen ==
    \E c \in children :
        /\ c.phase = "spawned"
        /\ IF disk[Resolve(c.input)].kind \notin {"audio", "wav"} \/ c.output = c.input
           THEN /\ children' = children \ {c}
                /\ disk' = disk
                /\ reply' = Reply("export-edl-audio", "error", "", Absent, FfmpegFailed("1"))
           ELSE /\ children' = (children \ {c}) \cup {[c EXCEPT !.phase = "writing"]}
                /\ disk' = [disk EXCEPT ![Resolve(c.output)] = PartialWav]
                /\ reply' = reply
        /\ UNCHANGED <<engineVars, builderVars, transcribeVars, rendererVars, uiVars>>

\* child.on("error", reject): ffmpeg could not be started; nothing is written.
FfmpegSpawnError ==
    \E c \in children :
        /\ c.phase = "spawned"
        /\ children' = children \ {c}
        /\ reply' = Reply("export-edl-audio", "error", "", Absent, "spawn ffmpeg ENOENT")
        /\ UNCHANGED <<disk, engineVars, builderVars, transcribeVars, rendererVars, uiVars>>

\* A close that finds in the output what the EDL is by then, not what the
\* child was started with.
FfmpegCloseLiveEdl ==
    \E c \in children, code \in ExitCodes :
        /\ c.phase = "writing"
        /\ children' = children \ {c}
        /\ IF code = "0" /\ disk[Resolve(c.input)].kind = "audio"
           THEN /\ disk' = [disk EXCEPT ![Resolve(c.output)] = WavFile(edl)]
                /\ reply' = Reply("export-edl-audio", "path", c.output, Absent, "")
           ELSE /\ disk' = disk
                /\ reply' = IF code = "0"
                            THEN Reply("export-edl-audio", "path", c.output, Absent, "")
                            ELSE Reply("export-edl-audio", "error", "", Absent,
                                       FfmpegFailed(code))
        /\ UNCHANGED <<engineVars, builderVars, transcribeVars, rendererVars, uiVars>>

\* child.on("close"): code 0 resolves with the path, any other code (an
\* error exit, or null when the child was terminated) rejects and what
\* ffmpeg wrote so far stays on disk.
FfmpegClose ==
    \E c \in children, code \in ExitCodes :
        /\ c.phase = "writing"
        /\ children' = children \ {c}
        /\ IF code = "0" /\ disk[Resolve(c.input)].kind = "audio"
           THEN /\ disk' = [disk EXCEPT ![Resolve(c.output)] = WavFile(c.segments)]
                /\ reply' = Reply("export-edl-audio", "path", c.output, Absent, "")
           ELSE /\ disk' = disk
                /\ reply' = IF code = "0"
                            THEN Reply("export-edl-audio", "path", c.output, Absent, "")
                            ELSE Reply("export-edl-audio", "error", "", Absent,
                                       FfmpegFailed(code))
        /\ UNCHANGED <<engineVars, builderVars, transcribeVars, rendererVars, uiVars>>

MainInit ==
    /\ wordsById = ImportedWords
    /\ order = ImportedOrder
    /\ undoStack = <<>>
    /\ redoStack = <<>>
    /\ edl = EDLBuilder(Doc(ImportedWords, ImportedOrder))
    /\ mapper = TimelineMapper(EDLBuilder(Doc(ImportedWords, ImportedOrder)),
                               Doc(ImportedWords, ImportedOrder))
    /\ media = [path |-> SourcePath, sampleRateHz |-> 1, totalSamples |-> TotalSamples]
    /\ strictCoverage = FALSE
    /\ cleanupOnUndo = FALSE
    /\ last = [op |-> "init", composite |-> FALSE, ok |-> TRUE, err |-> "ok", req |-> <<>>]
    /\ undoPre = <<>>
    /\ opened = 0
    /\ openTransaction = NoTransaction
    /\ TranscriptionIdle
    /\ RendererIdle
    /\ candidate = [doc |-> Doc(ImportedWords, ImportedOrder), totalSamples |-> TotalSamples]
    /\ built = NotBuilt
    /\ disk = InitialDisk
    /\ children = {}
    /\ reply = NoReply

MainNext ==
    SaveEdl \/ LoadEdl \/ ExportEdlAudio \/ FfmpegSpawnError \/ FfmpegOpen \/ FfmpegClose

MainSpec == MainInit /\ [][MainNext]_vars

\* C9: no edit, undo, redo, save, load or export modifies the source audio
\* file; export-edl-audio never writes to edl.sourceFile whatever output
\* path the user chooses.
C9_SourceAudioUntouched == disk[Resolve(SourcePath)] = OriginalAudio

\* ------------------------------------------------- properties of the engine

\* The document the command on top of undoStack was applied to.
PreApply == undoPre[Len(undoPre)]

ApplyStep == last'.op = "apply"

UndoStep == last'.op = "undo"

RedoStep == last'.op = "redo"

\* `words`/`ord` restore the document `pre` in its ordering and in every
\* record `pre` held; any further record is a tombstone.
RestoredUpToTombstones(pre, records, ord) ==
    /\ ord = pre.order
    /\ DOMAIN pre.wordsById \subseteq DOMAIN records
    /\ \A k \in DOMAIN pre.wordsById : records[k] = pre.wordsById[k]

C2_DocInvariant == DocInvariant(CurrentDoc)

\* An insert of an id already in `order` has just been rejected while the
\* document holds a tombstone.
C2_Witness ==
    /\ last.op = "apply" /\ ~last.ok /\ last.err = "DuplicateWordId"
    /\ Tombstones(CurrentDoc) # {}
    /\ undoStack # <<>>

\* C3: whenever a document operation fails, wordsById and order are exactly
\* what they were before the call; a failing insertRange adds no record.
C3_FailureLeavesDocument ==
    [][(ApplyStep /\ ~last'.ok /\ ~last'.composite) =>
          /\ wordsById' = wordsById
          /\ order' = order]_vars

\* An insertRange given the new record of w4 has just failed on a duplicate
\* id, and w4 is not in wordsById.
C3_Witness ==
    /\ last.op = "apply" /\ ~last.ok
    /\ ~last.composite /\ last.err = "DuplicateWordId"
    /\ "w4" \notin DOMAIN wordsById

C5_ApplyPushesAndClears ==
    [][/\ (ApplyStep /\ last'.ok) =>
             /\ Len(undoStack') = Len(undoStack) + 1
             /\ SubSeq(undoStack', 1, Len(undoStack)) = undoStack
             /\ RequestOf(undoStack'[Len(undoStack')]) = last'.req
             /\ redoStack' = <<>>
       /\ (last.op = "apply" /\ last.ok /\ RedoStep) =>
             /\ ~last'.ok
             /\ last'.err = "NothingToRedo"]_vars

\* A redo() directly after a successful apply has just failed.
C5_Witness ==
    /\ last.op = "redo" /\ last.err = "NothingToRedo"
    /\ Len(undoStack) = MaxUndo
    /\ redoStack = <<>>

\* C6: undo() on an empty undoStack fails with NothingToUndo and redo() on
\* an empty redoStack fails with NothingToRedo, document and stacks
\* unchanged; otherwise undo() moves the top command of undoStack to the top
\* of redoStack and redo() moves the top command of redoStack to the top of
\* undoStack, the number of commands across both stacks being preserved.
C6_UndoRedoStacks ==
    [][/\ (UndoStep /\ undoStack = <<>>) =>
             /\ ~last'.ok /\ last'.err = "NothingToUndo"
             /\ UNCHANGED <<wordsById, order, undoStack, redoStack>>
       /\ (RedoStep /\ redoStack = <<>>) =>
             /\ ~last'.ok /\ last'.err = "NothingToRedo"
             /\ UNCHANGED <<wordsById, order, undoStack, redoStack>>
       /\ (UndoStep /\ undoStack # <<>>) =>
             /\ last'.ok
             /\ undoStack' = SubSeq(undoStack, 1, Len(undoStack) - 1)
             /\ redoStack' = Append(redoStack, undoStack[Len(undoStack)])
       /\ (RedoStep /\ redoStack # <<>>) =>
             /\ last'.ok
             /\ redoStack' = SubSeq(redoStack, 1, Len(redoStack) - 1)
             /\ undoStack' = Append(undoStack, redoStack[Len(redoStack)])
       /\ (UndoStep \/ RedoStep) =>
             Len(undoStack') + Len(redoStack') = Len(undoStack) + Len(redoStack)]_vars

\* A redo has just moved a command back while another stays undone.
C6_Witness ==
    /\ last.op = "redo" /\ last.ok
    /\ Len(undoStack) = 1
    /\ Len(redoStack) = 1

ExampleDocs ==
    {[doc |-> SixWords, totalSamples |-> 1200]}
    \cup {[doc |-> Tiling(Ascending({0, TileSamples} \cup cuts)), totalSamples |-> TileSamples] :
             cuts \in SUBSET (1..(TileSamples - 1))}

\* 5.2: the user deletes a contiguous range that has a word before it and a
\* word after it.
InteriorDeletes(doc) ==
    UNION {{DeleteRequest(i, n) : n \in 1..(Len(doc.order) - 1 - i)} :
              i \in 1..(Len(doc.order) - 2)}

\* 5.3: the user cuts the word before the last and pastes it at the beginning.
CutAndPasteMoves(doc) ==
    {MoveRequest(Len(doc.order) - 2, 1, 0) : i \in {2} \cap DOMAIN doc.order}

\* 5.4: the user moves the start of the last word later, by one sample or
\* by 0.20 s of the example's 100 samples per second.
BoundaryRefinements(doc) ==
    {SpanRequest(doc.order[i],
                 Span(doc.wordsById[doc.order[i]].span.startSample + d,
                      doc.wordsById[doc.order[i]].span.endSample), <<>>) :
        i \in {Len(doc.order)} \cap DOMAIN doc.order, d \in {1, 20}}

ExampleInit ==
    /\ \E c \in ExampleDocs :
          /\ wordsById = c.doc.wordsById
          /\ order = c.doc.order
          /\ edl = EDLBuilder(c.doc)
          /\ mapper = TimelineMapper(EDLBuilder(c.doc), c.doc)
          /\ media = [path |-> SourcePath, sampleRateHz |-> 1, totalSamples |-> c.totalSamples]
    /\ undoStack = <<>>
    /\ redoStack = <<>>
    /\ strictCoverage \in BOOLEAN
    /\ cleanupOnUndo = FALSE
    /\ last = [op |-> "init", composite |-> FALSE, ok |-> TRUE, err |-> "ok", req |-> <<>>]
    /\ undoPre = <<>>
    /\ opened = 0
    /\ openTransaction = NoTransaction
    /\ TranscriptionIdle
    /\ RendererIdle
    /\ candidate = [doc |-> Doc(ImportedWords, ImportedOrder), totalSamples |-> TotalSamples]
    /\ built = NotBuilt
    /\ disk = InitialDisk
    /\ children = {}
    /\ reply = NoReply

DeleteExample == \E req \in InteriorDeletes(CurrentDoc) : Apply(req)

CutAndPasteExample == \E req \in CutAndPasteMoves(CurrentDoc) : Apply(req)

BoundaryRefinementExample == \E req \in BoundaryRefinements(CurrentDoc) : Apply(req)

ExampleNext ==
    DeleteExample \/ CutAndPasteExample \/ BoundaryRefinementExample \/ Undo \/ Redo

ExampleSpec == ExampleInit /\ [][ExampleNext]_vars

\* The document and the EDL observed before the command on top of undoStack.
PreApplyDoc == Doc(PreApply.wordsById, PreApply.order)

\* C11: from the six words, deleting world,this yields exactly the segments
\* [0,120) and [310,1200) in that order; in general deleting an interior
\* contiguous range of a transcript that tiles the source in source order
\* leaves exactly the segment before and the segment after the removed spans;
\* and the undo of such a delete restores the single segment [0, total).
C11_DeleteInteriorRange ==
    [][/\ (/\ ApplyStep /\ last'.ok
           /\ CurrentDoc = SixWords
           /\ last'.req = DeleteRequest(1, 2)) =>
              edl' = <<Segment(0, 120), Segment(310, 1200)>>
       /\ (/\ ApplyStep /\ last'.ok
           /\ last'.req.type = "deleteWords"
           /\ TiledInSourceOrder(CurrentDoc, media.totalSamples)) =>
              edl' = <<Segment(0, wordsById[order[last'.req.startIndex + 1]].span.startSample),
                       Segment(wordsById[order[last'.req.startIndex
                                               + last'.req.count]].span.endSample,
                               media.totalSamples)>>
       /\ (/\ UndoStep /\ last'.ok
           /\ undoStack[Len(undoStack)].type = "deleteWords"
           /\ TiledInSourceOrder(PreApplyDoc, media.totalSamples)) =>
              /\ Len(PreApply.edl) = 1
              /\ edl' = <<Segment(0, media.totalSamples)>>]_vars

\* The delete of world,this has just been undone: the six words are back in
\* order and the EDL is the single segment again.
C11_Witness ==
    /\ last.op = "undo" /\ last.ok
    /\ redoStack = <<DeleteWordsCommand(1, <<"t2", "t3">>)>>
    /\ undoStack = <<>>
    /\ CurrentDoc = SixWords
    /\ edl = <<Segment(0, 1200)>>

\* C12: from the six words, moving OTTER to index 0 yields exactly the EDL
\* [350,500), [0,350), [500,1200) in that order: nothing merges across the
\* two boundaries the move creates while Hello,world,this,is stay one segment.
C12_MoveOtterToFront ==
    [][(/\ ApplyStep /\ last'.ok
        /\ CurrentDoc = SixWords
        /\ last'.req = MoveRequest(4, 1, 0)) =>
           /\ order' = <<"t5", "t1", "t2", "t3", "t4", "t6">>
           /\ edl' = <<Segment(350, 500), Segment(0, 350), Segment(500, 1200)>>]_vars

\* OTTER has just been moved to the front of the six words.
C12_Witness ==
    /\ last.op = "apply" /\ last.ok
    /\ last.req = MoveRequest(4, 1, 0)
    /\ wordsById = SixWords.wordsById
    /\ undoStack = <<MoveRangeCommand(4, 1, 0, <<"t5">>)>>
    /\ Len(edl) = 3

\* The source samples a span update takes away from a word.
FreedSamples(old, new) ==
    {x \in old.startSample..(old.endSample - 1) : x < new.startSample \/ x >= new.endSample}

\* The source samples the EDL plays.
SegmentSamples(segments) ==
    UNION {segments[i].sourceStart..(segments[i].sourceEnd - 1) : i \in 1..Len(segments)}

\* The source samples the TimelineMapper leads to: from an edited time and
\* from a word.
MapperSamples(segments, tm) ==
    {editedTimeToSource(segments, tm, t).sourceTime : t \in 0..(TotalDuration(segments) - 1)}
    \cup {segments[tm.wordIndex[k].segmentIndex + 1].sourceStart + tm.wordIndex[k].sourceOffset :
             k \in DOMAIN tm.wordIndex}

\* C13: under the permissive policy, shrinking demo from [500,1200) to
\* [520,1200) leaves no sample of [500,520) in any EDL segment or
\* TimelineMapper entry and the edited duration drops by exactly 20; in
\* general a span update of a word in `order`, without neighbor updates,
\* changes the edited duration by exactly old length minus new length, and
\* in a transcript that tiled the source the freed samples are in no derived
\* structure.
C13_ShrinkRemovesSamples ==
    [][(/\ ApplyStep /\ last'.ok
        /\ last'.req.type = "updateWordSpan"
        /\ last'.req.neighborUpdates = <<>>
        /\ last'.req.wordId \in Range(order)) =>
           LET old == wordsById[last'.req.wordId].span
               new == last'.req.afterSpan IN
           /\ ~strictCoverage
           /\ TotalDuration(edl') =
                 TotalDuration(edl) - ((old.endSample - old.startSample)
                                       - (new.endSample - new.startSample))
           /\ mapper'.editedOffset[Len(edl')] = TotalDuration(edl')
           /\ TiledInSourceOrder(CurrentDoc, media.totalSamples) =>
                 /\ FreedSamples(old, new) \cap SegmentSamples(edl') = {}
                 /\ FreedSamples(old, new) \cap MapperSamples(edl', mapper') = {}
           /\ (CurrentDoc = SixWords /\ new = Span(520, 1200)) =>
                 /\ FreedSamples(old, new) = 500..519
                 /\ edl' = <<Segment(0, 500), Segment(520, 1200)>>
                 /\ TotalDuration(edl') = 1200 - 20]_vars

\* demo has just been shrunk to [520,1200) in the six words.
C13_Witness ==
    /\ last.op = "apply" /\ last.ok
    /\ last.req = SpanRequest("t6", Span(520, 1200), <<>>)
    /\ order = SixWords.order
    /\ Len(undoStack) = 1
    /\ ~strictCoverage
    /\ wordsById["t6"].span = Span(520, 1200)
    /\ TotalDuration(edl) = 1180

\* ------------------------------------------ properties of export-edl-audio

\* The export whose child has just closed or failed to start.
Settled == children \ children'

EmptyExportError ==
    Reply("export-edl-audio", "error", "", Absent, "No non-muted segments to export.")

\* C14: a completed export has requested from the source exactly the ranges
\* of the non-muted entries, in EDL order, and its output holds those ranges,
\* so the output duration is the sum of (sourceEnd - sourceStart) over them.
C14_CompletedExportRendersEdl ==
    [][\A c \in Settled :
          (/\ c.phase = "writing"
           /\ reply'.handler = "export-edl-audio"
           /\ reply'.result = "path") =>
              /\ c.input = c.edl.sourceFile
              /\ c.segments = FilterComplex(NonMuted(c.edl.entries))
              /\ disk'[Resolve(c.output)] = WavFile(c.segments)
              /\ TotalDuration(disk'[Resolve(c.output)].segments) =
                    TotalDuration(NonMuted(c.edl.entries))]_vars

\* C15 as stated: an export of an EDL with zero segments is never reported
\* as an error.
C15_EmptyExportIsNoError == reply # EmptyExportError

\* C15 amended: export-edl-audio rejects an EDL none of whose entries is
\* non-muted: the error is thrown before anything is spawned or written, no
\* export runs on zero segments and no output of zero segments is written.
C15_EmptyExportRejected ==
    /\ [](\A c \in children : c.segments # <<>> /\ NonMuted(c.edl.entries) # <<>>)
    /\ [](\A f \in Files : disk[f].kind = "wav" => disk[f].segments # <<>>)
    /\ [][(reply' = EmptyExportError /\ reply' # reply) =>
             UNCHANGED <<disk, children>>]_vars

\* The export of an EDL whose entries are all muted has just been rejected,
\* and nothing was written.
C15_Witness ==
    /\ reply = EmptyExportError
    /\ children = {}
    /\ disk = InitialDisk

\* C16: when a running export is stopped before it completed (the child
\* terminated while writing), no output file is left at the destination and
\* the child is gone.
C16_CancelledExportLeavesNoFile ==
    [][\A c \in Settled :
          (c.phase = "writing" /\ reply'.error = FfmpegFailed("null")) =>
              /\ disk'[Resolve(c.output)].kind = "absent"
              /\ children' = {}]_vars

\* C17: when an export fails the failure is reported to the caller and no
\* partially written file remains at the destination.
C17_FailedExportLeavesNoPartialFile ==
    [][\A c \in Settled :
          (reply'.result # "path" /\ reply'.error # FfmpegFailed("null")) =>
              /\ reply'.handler = "export-edl-audio"
              /\ reply'.result = "error"
              /\ disk'[Resolve(c.output)].kind # "partial"]_vars

\* ------------------------------------ an editing session with export jobs

\* The edits of the session: an interior delete and a move of the first
\* word to the end.
SessionRequests(doc) ==
    {DeleteRequest(1, 1), MoveRequest(0, 1, Len(doc.order) - 1)}

SessionEdit == \E req \in SessionRequests(CurrentDoc) : Apply(req)

EntryIds == <<"e1", "e2", "e3", "e4">>

\* The EDL handed to export: the current segments, by value, none muted.
EdlOf(segments) ==
    Edl(media.path,
        [i \in 1..Len(segments) |->
            EdlEntry(EntryIds[i], segments[i].sourceStart, segments[i].sourceEnd, "", FALSE)])

\* The destinations of the session's exports: the default, a second name of
\* the source, or canceled.
ExportDialogResults == {ExportPath, LinkPath, Canceled}

\* start(edl, sink): the current EDL is serialized and handed to
\* export-edl-audio.
StartExport ==
    \E filePath \in ExportDialogResults :
        ExportEdlAudioHandler(JsonText(EdlOf(edl)), filePath)

SessionNext ==
    \/ SessionEdit \/ Undo \/ Redo
    \/ StartExport \/ FfmpegSpawnError \/ FfmpegOpen \/ FfmpegClose

SessionSpec == MainInit /\ [][SessionNext]_vars

\* The source ranges of a segment list, in order.
Ranges(segments) ==
    [i \in 1..Len(segments) |-> Segment(segments[i].sourceStart, segments[i].sourceEnd)]

\* C18: an export job renders the EDL of the moment it started.  The child
\* is started on exactly the ranges of the current EDL; while it runs its
\* ranges, input and output never change; every step either leaves the job
\* and the files alone (an apply, undo or redo) or leaves the document, the
\* stacks and the derived state alone (a step of the job); and the output a
\* completed job writes holds the ranges it was started with, whatever the
\* EDL is by then.
C18_ExportSnapshotIsolation ==
    [][/\ \A c \in children' \ children :
             c.phase = "spawned" =>
                /\ c.segments = Ranges(edl)
                /\ c.input = media.path
       /\ \A c \in children :
             \/ c \in children'
             \/ [c EXCEPT !.phase = "writing"] \in children'
             \/ children' = children \ {c}
       /\ \/ UNCHANGED <<children, disk>>
          \/ UNCHANGED <<wordsById, order, undoStack, redoStack, edl, mapper, media>>
       /\ \A c \in Settled :
             (c.phase = "writing" /\ disk' # disk) =>
                /\ reply' = Reply("export-edl-audio", "path", c.output, Absent, "")
                /\ disk' = [disk EXCEPT ![Resolve(c.output)] = WavFile(c.segments)]]_vars

\* An export started on the single segment of the imported transcript has
\* completed after the transcript was edited into two segments: the output
\* holds the single segment.
C18_Witness ==
    /\ reply = Reply("export-edl-audio", "path", ExportPath, Absent, "")
    /\ children = {}
    /\ disk[ExportPath] = WavFile(<<Segment(0, TotalSamples)>>)
    /\ Len(undoStack) = 1
    /\ Len(edl) = 2

\* --------------------------------------------- project files: save and load

\* How many project files one session opens.
MaxLoads == 1

\* The schema version this build reads and writes.
CurrentSchemaVersion == 1

\* The ids of the model in the order the members of `wordsById` are written.
AllIds == <<"w1", "w2", "w3", "w4">>

\* The members of the JSON object `wordsById`: one per record, referenced
\* by `order` or not.
Members(records) ==
    LET ids == SelectSeq(AllIds, LAMBDA id : id \in DOMAIN records)
    IN [i \in 1..Len(ids) |-> [id |-> ids[i], word |-> records[ids[i]]]]

\* type Project: the persisted fields and nothing derived.
Project(version, m, members, ord) ==
    [schemaVersion |-> version, projectId |-> "p1", media |-> m,
     transcript |-> [wordsById |-> members, order |-> ord]]

\* save(project): the project file of the media reference and the document.
saveProject(m, doc) ==
    Project(CurrentSchemaVersion, m, Members(doc.wordsById), doc.order)

\* JSON.parse(text): the value of the text when its characters are the ones
\* the value was written with; a text whose characters were altered parses
\* to other strings.
Garbled(value) ==
    [value EXCEPT !.transcript.wordsById =
        [i \in DOMAIN @ |-> [@[i] EXCEPT !.word.text = "garbled"]]]

JsonParse(text) ==
    IF ~text.valid THEN [ok |-> FALSE, value |-> <<>>]
    ELSE [ok |-> TRUE,
          value |-> IF text.units = JsonText(text.edl).units \/ "entries" \in DOMAIN text.edl
                    THEN text.edl ELSE Garbled(text.edl)]

\* The outcome of a load: the media reference, the document and the state
\* derived from it, or the error and no document.
NoDocument == <<>>

LoadFailed(err) ==
    [ok |-> FALSE, err |-> err, media |-> <<>>, doc |-> NoDocument,
     edl |-> <<>>, mapper |-> <<>>]

Loaded(m, doc) ==
    [ok |-> TRUE, err |-> "ok", media |-> m, doc |-> doc,
     edl |-> EDLBuilder(doc), mapper |-> TimelineMapper(EDLBuilder(doc), doc)]

\* The record map of a parsed `wordsById` object: a key written twice
\* keeps its last value.
RecordMap(members) ==
    [id \in {members[i].id : i \in DOMAIN members} |->
        members[CHOOSE i \in DOMAIN members :
                    /\ members[i].id = id
                    /\ \A j \in DOMAIN members : members[j].id = id => j <= i].word]

SupportedSchema(value) ==
    /\ "schemaVersion" \in DOMAIN value
    /\ value.schemaVersion = CurrentSchemaVersion

ParsedDoc(value) ==
    Doc(RecordMap(value.transcript.wordsById), value.transcript.order)

\* A load that re-validates the document before it looks at the version.
loadProjectIntegrityFirst(text) ==
    LET json == JsonParse(text) IN
    IF ~json.ok THEN LoadFailed("SchemaError")
    ELSE IF "transcript" \in DOMAIN json.value /\ ~DocInvariant(ParsedDoc(json.value))
    THEN LoadFailed("SchemaError")
    ELSE IF ~SupportedSchema(json.value) THEN LoadFailed("UnsupportedSchema")
    ELSE Loaded(json.value.media, ParsedDoc(json.value))

\* load(text): the schema version first, then the references of `order`
\* into `wordsById`, then the derived state.
loadProject(text) ==
    LET json == JsonParse(text) IN
    IF ~json.ok THEN LoadFailed("SchemaError")
    ELSE IF ~SupportedSchema(json.value) THEN LoadFailed("UnsupportedSchema")
    ELSE IF ~DocInvariant(ParsedDoc(json.value)) THEN LoadFailed("SchemaError")
    ELSE Loaded(json.value.media, ParsedDoc(json.value))

\* Project files found on disk when the session starts: a sound project of
\* another transcript, one of a later schema version, one whose `order`
\* names a record that is missing, one with both defects, one whose `order`
\* names a record twice, and a file that is not JSON.
ForeignWords ==
    ("w1" :> Word("w1", "Hello", Span(0, 2))) @@
    ("w2" :> Word("w2", "world", Span(2, 4)))

ForeignMedia == [path |-> SourcePath, sampleRateHz |-> 1, totalSamples |-> TotalSamples]

ForeignProjectTexts ==
    {JsonText(Project(version, ForeignMedia, Members(ForeignWords), ord)) :
        version \in {CurrentSchemaVersion, CurrentSchemaVersion + 1},
        ord \in {<<"w2", "w1">>, <<"w2", "w9">>}}
    \cup {JsonText(Project(CurrentSchemaVersion, ForeignMedia, Members(ForeignWords),
                           <<"w2", "w2">>)),
          BrokenText}

ProjectInit ==
    /\ wordsById = ImportedWords
    /\ order = ImportedOrder
    /\ undoStack = <<>>
    /\ redoStack = <<>>
    /\ edl = EDLBuilder(Doc(ImportedWords, ImportedOrder))
    /\ mapper = TimelineMapper(EDLBuilder(Doc(ImportedWords, ImportedOrder)),
                               Doc(ImportedWords, ImportedOrder))
    /\ media = [path |-> SourcePath, sampleRateHz |-> 1, totalSamples |-> TotalSamples]
    /\ strictCoverage = FALSE
    /\ cleanupOnUndo = FALSE
    /\ last = [op |-> "init", composite |-> FALSE, ok |-> TRUE, err |-> "ok", req |-> <<>>]
    /\ undoPre = <<>>
    /\ opened = 0
    /\ openTransaction = NoTransaction
    /\ TranscriptionIdle
    /\ RendererIdle
    /\ candidate = [doc |-> Doc(ImportedWords, ImportedOrder), totalSamples |-> TotalSamples]
    /\ built = NotBuilt
    /\ \E file \in {Absent} \cup {TextFile(t) : t \in ForeignProjectTexts} :
          disk = [InitialDisk EXCEPT ![ProjectPath] = file]
    /\ children = {}
    /\ reply = NoReply

\* The edits of the session: a paste of a word from another project, a
\* delete of the first word, a refinement of the last word's start.
ProjectRequests(doc) ==
    {InsertRequest(0, <<"w4">>, PastedWords), DeleteRequest(0, 1)}
    \cup {SpanRequest(doc.order[i],
                      Span(doc.wordsById[doc.order[i]].span.startSample + 1,
                           doc.wordsById[doc.order[i]].span.endSample), <<>>) :
             i \in {Len(doc.order)} \cap DOMAIN doc.order}

ProjectEdit == \E req \in ProjectRequests(CurrentDoc) : Apply(req)

\* The text of the open project.
ProjectText == JsonText(saveProject(media, CurrentDoc))

\* Save: the open project is serialized and handed to save-edl.
SaveProject ==
    \E filePath \in {ProjectPath, Canceled} : SaveEdlHandler(ProjectText, filePath)

\* Open: the content load-edl returned is loaded; the loaded project
\* replaces the open one, with empty stacks, and a failed load replaces
\* nothing.
OpenProject ==
    /\ opened < MaxLoads
    /\ reply.handler = "load-edl"
    /\ reply.result = "file"
    /\ \E out \in {loadProject(reply.content.text)} :
          /\ IF out.ok
             THEN /\ wordsById' = out.doc.wordsById
                  /\ order' = out.doc.order
                  /\ edl' = out.edl
                  /\ mapper' = out.mapper
                  /\ media' = out.media
                  /\ undoStack' = <<>>
                  /\ redoStack' = <<>>
                  /\ undoPre' = <<>>
                  /\ opened' = opened + 1
             ELSE UNCHANGED <<wordsById, order, edl, mapper, media, undoStack,
                              redoStack, undoPre, opened>>
          /\ last' = [op |-> "load", composite |-> FALSE, ok |-> out.ok,
                      err |-> out.err, req |-> <<>>]
    /\ reply' = NoReply
    /\ UNCHANGED <<strictCoverage, cleanupOnUndo, openTransaction, builderVars, disk,
                 children, transcribeVars, rendererVars, uiVars>>

ProjectNext ==
    ProjectEdit \/ Undo \/ Redo \/ SaveProject \/ LoadEdl \/ OpenProject

ProjectSpec == ProjectInit /\ [][ProjectNext]_vars

\* A step of save-edl, of load-edl, and of a load of the returned content.
SaveStep == reply'.handler = "save-edl" /\ UNCHANGED <<last, undoStack, redoStack>>

LoadEdlStep == reply'.handler = "load-edl" /\ UNCHANGED <<last, undoStack, redoStack>>

LoadStep == reply.handler = "load-edl" /\ reply.result = "file" /\ reply' = NoReply

C20_LoadValidatesInOrder ==
    [][LoadStep =>
        LET json == JsonParse(reply.content.text)
            out == loadProject(reply.content.text)
        IN /\ last'.op = "load"
           /\ (json.ok /\ ~SupportedSchema(json.value)) =>
                 (~last'.ok /\ last'.err = "UnsupportedSchema")
           /\ (json.ok /\ SupportedSchema(json.value)
                 /\ ~DocInvariant(ParsedDoc(json.value))) =>
                 (~last'.ok /\ last'.err = "SchemaError")
           /\ ~json.ok => (~last'.ok /\ last'.err = "SchemaError")
           /\ ~last'.ok =>
                 /\ out.doc = NoDocument
                 /\ out.edl = <<>>
                 /\ out.mapper = <<>>
                 /\ UNCHANGED <<wordsById, order, edl, mapper, media, undoStack,
                                redoStack, opened>>
           /\ last'.ok =>
                 /\ SupportedSchema(json.value)
                 /\ DocInvariant(Doc(wordsById', order'))
                 /\ edl' = EDLBuilder(Doc(wordsById', order'))
                 /\ mapper' = TimelineMapper(edl', Doc(wordsById', order'))]_vars

\* A project file of a later schema version whose `order` also names a
\* missing record was just refused as UnsupportedSchema, while the open
\* document keeps its edit and its undo stack.
C20_Witness ==
    /\ last = [op |-> "load", composite |-> FALSE, ok |-> FALSE,
               err |-> "UnsupportedSchema", req |-> <<>>]
    /\ disk[ProjectPath] =
          TextFile(JsonText(Project(CurrentSchemaVersion + 1, ForeignMedia,
                                    Members(ForeignWords), <<"w2", "w9">>)))
    /\ Len(undoStack) = 1
    /\ order # ImportedOrder
    /\ opened = 0

\* ------------------------------ document operations over every transcript

\* How many commands a document of this section has on its stacks.
MaxEdits == 1

\* The documents of this section: every transcript an importer produces
\* for TileSamples samples.
ImportedDocs ==
    {Tiling(Ascending({0, TileSamples} \cup cuts)) : cuts \in SUBSET (1..(TileSamples - 1))}

\* Every index a caller may pass: in range, at the end, and past it.
Indices(doc) == 0..(Len(doc.order) + 1)

AllMoves(doc) ==
    {MoveRequest(f, c, t) : f \in Indices(doc), c \in Indices(doc), t \in Indices(doc)}

AllDeletes(doc) == {DeleteRequest(s, c) : s \in Indices(doc), c \in Indices(doc)}

\* Every span a caller may pass for a word: inside the source, empty,
\* reversed, starting before sample 0, ending after the last sample.
AllSpans(total) == {Span(s, e) : s \in (0 - 1)..total, e \in 0..(total + 1)}

AllSpanUpdates(doc, total) ==
    {SpanRequest(id, sp, <<>>) : id \in Range(doc.order), sp \in AllSpans(total)}

\* A paste of a word record from another project, with any span.
AllPastes(doc, total) ==
    {InsertRequest(0, <<"w4">>, ("w4" :> Word("w4", "pasted", sp))) : sp \in AllSpans(total)}

DocumentInit ==
    /\ \E doc \in ImportedDocs :
          /\ wordsById = doc.wordsById
          /\ order = doc.order
          /\ edl = EDLBuilder(doc)
          /\ mapper = TimelineMapper(EDLBuilder(doc), doc)
    /\ media = [path |-> SourcePath, sampleRateHz |-> 1, totalSamples |-> TileSamples]
    /\ undoStack = <<>>
    /\ redoStack = <<>>
    /\ strictCoverage = FALSE
    /\ cleanupOnUndo = FALSE
    /\ last = [op |-> "init", composite |-> FALSE, ok |-> TRUE, err |-> "ok", req |-> <<>>]
    /\ undoPre = <<>>
    /\ opened = 0
    /\ openTransaction = NoTransaction
    /\ TranscriptionIdle
    /\ RendererIdle
    /\ candidate = [doc |-> Doc(ImportedWords, ImportedOrder), totalSamples |-> TotalSamples]
    /\ built = NotBuilt
    /\ disk = InitialDisk
    /\ children = {}
    /\ reply = NoReply

\* One edit of an imported document.
DocumentEdit(req) ==
    /\ Len(undoStack) + Len(redoStack) < MaxEdits
    /\ Apply(req)

MoveWords == \E req \in AllMoves(CurrentDoc) : DocumentEdit(req)

DeleteWords == \E req \in AllDeletes(CurrentDoc) : DocumentEdit(req)

RefineSpan == \E req \in AllSpanUpdates(CurrentDoc, media.totalSamples) : DocumentEdit(req)

PasteWord == \E req \in AllPastes(CurrentDoc, media.totalSamples) : DocumentEdit(req)

DocumentNext == MoveWords \/ DeleteWords \/ RefineSpan \/ PasteWord \/ Undo \/ Redo

DocumentSpec == DocumentInit /\ [][DocumentNext]_vars

\* C25: moveRange takes toIndex for an index into the array after the block
\* was removed.  For every document and every fromIndex, count and toIndex:
\* the move fails, with IndexOutOfRange and the document as it was, exactly
\* when fromIndex + count exceeds the length of `order` or toIndex exceeds
\* that length less count; when it succeeds the moved ids are at
\* toIndex..toIndex+count-1 in their relative order, the other ids keep
\* theirs, `order` is a permutation of what it was and wordsById is
\* untouched.  The engine applies a MoveRange as moveRange does, and its
\* undo restores the order exactly.
C25_MoveRangeAfterRemoval ==
    /\ [](\A req \in AllMoves(CurrentDoc) :
            LET n == Len(order)
                f == req.fromIndex
                c == req.count
                t == req.toIndex
                r == moveRange(CurrentDoc, f, c, t)
            IN /\ r.ok <=> ~(f + c > n \/ t > n - c)
               /\ ~r.ok => (r.err = "IndexOutOfRange" /\ r.doc = CurrentDoc)
               /\ r.ok =>
                    /\ SubSeq(r.doc.order, t + 1, t + c) = SubSeq(order, f + 1, f + c)
                    /\ SubSeq(r.doc.order, 1, t) \o SubSeq(r.doc.order, t + c + 1, n)
                          = SubSeq(order, 1, f) \o SubSeq(order, f + c + 1, n)
                    /\ Len(r.doc.order) = n
                    /\ Range(r.doc.order) = Range(order)
                    /\ NoDuplicates(r.doc.order)
                    /\ r.doc.wordsById = wordsById
                    /\ r.out = SubSeq(order, f + 1, f + c))
    /\ [][/\ (ApplyStep /\ last'.ok /\ last'.req.type = "moveRange") =>
               /\ Doc(wordsById', order')
                     = moveRange(CurrentDoc, last'.req.fromIndex, last'.req.count,
                                 last'.req.toIndex).doc
               /\ undoStack'[Len(undoStack')]
                     = MoveRangeCommand(last'.req.fromIndex, last'.req.count,
                                        last'.req.toIndex,
                                        SubSeq(order, last'.req.fromIndex + 1,
                                               last'.req.fromIndex + last'.req.count))
          /\ (UndoStep /\ last'.ok /\ undoStack[Len(undoStack)].type = "moveRange") =>
               /\ order' = PreApply.order
               /\ wordsById' = PreApply.wordsById]_vars

\* The move of the two words at index 1 of a six-word transcript to index 3
\* of the four that remain (behind the fifth word) has just been undone.
C25_Witness ==
    /\ last.op = "undo" /\ last.ok
    /\ redoStack = <<MoveRangeCommand(1, 2, 3, <<"t2", "t3">>)>>
    /\ order = <<"t1", "t2", "t3", "t4", "t5", "t6">>

\* The source samples of a list of ranges, range after range.
SampleSeq(s, e) == [i \in 1..(e - s) |-> s + i - 1]

SegmentSampleSeq(segments) ==
    Flatten([i \in 1..Len(segments) |-> SampleSeq(segments[i].sourceStart, segments[i].sourceEnd)])

WordSampleSeq(doc) ==
    Flatten([i \in 1..Len(doc.order) |->
                SampleSeq(doc.wordsById[doc.order[i]].span.startSample,
                          doc.wordsById[doc.order[i]].span.endSample)])

\* The positions of `order` after which a run ends: the next word does not
\* start where this one ends, or there is no next word.
RunEnds(doc) ==
    {i \in 1..Len(doc.order) :
        \/ i = Len(doc.order)
        \/ doc.wordsById[doc.order[i]].span.endSample
              # doc.wordsById[doc.order[i + 1]].span.startSample}

RunStarts(doc) == {i \in 1..Len(doc.order) : i = 1 \/ (i - 1) \in RunEnds(doc)}

\* The maximal runs of consecutive words of `order`, each as the range from
\* its first word's start to its last word's end.
MaximalRuns(doc) ==
    [k \in 1..Cardinality(RunEnds(doc)) |->
        Segment(doc.wordsById[doc.order[Ascending(RunStarts(doc))[k]]].span.startSample,
                doc.wordsById[doc.order[Ascending(RunEnds(doc))[k]]].span.endSample)]

\* C26: in every document state the EDL is exactly the maximal runs of
\* consecutive words of `order` in which each word starts where the one
\* before it ends: each segment is [first word's start, last word's end) of
\* its run, the segments concatenate to the same samples as the word spans
\* in order, and no segment ends where the next one starts.
C26_SegmentsAreMaximalRuns ==
    /\ edl = MaximalRuns(CurrentDoc)
    /\ EDLBuilder(CurrentDoc) = MaximalRuns(CurrentDoc)
    /\ SegmentSampleSeq(edl) = WordSampleSeq(CurrentDoc)
    /\ \A i \in 1..(Len(edl) - 1) : edl[i].sourceEnd # edl[i + 1].sourceStart

\* Six one-sample words after the third and fourth were moved to the end:
\* three runs of two words each, the last one out of source order.
C26_Witness ==
    /\ last.op = "apply" /\ last.ok
    /\ order = <<"t1", "t2", "t5", "t6", "t3", "t4">>
    /\ edl = <<Segment(0, 2), Segment(4, 6), Segment(2, 4)>>

\* The edited times a caller may ask for: before 0, inside, at the end and
\* past it.
EditedTimes(segments) == (0 - 1)..(TotalDuration(segments) + 2)

\* C27: editedTimeToSource is correct for every EDL.  The offsets of the
\* mapper are the prefix sums of the segment durations; for every t with
\* 0 <= t < total edited duration the result is the one segment i with
\* editedOffset[i] <= t < editedOffset[i+1], and the source time is the
\* segment's start plus t - editedOffset[i], inside the segment; for every
\* t beyond the total edited duration, and for every t when the EDL is
\* empty, the result is the failure OutOfRange.
C27_EditedTimeToSource ==
    /\ mapper.editedOffset[0] = 0
    /\ \A i \in 1..Len(edl) :
          mapper.editedOffset[i] = mapper.editedOffset[i - 1] + edl[i].sourceEnd - edl[i].sourceStart
    /\ \A t \in EditedTimes(edl) :
          LET r == editedTimeToSource(edl, mapper, t)
              i == r.segmentIndex
          IN /\ (0 <= t /\ t < TotalDuration(edl)) =>
                   /\ r.ok
                   /\ i \in 0..(Len(edl) - 1)
                   /\ mapper.editedOffset[i] <= t
                   /\ t < mapper.editedOffset[i + 1]
                   /\ \A j \in 0..(Len(edl) - 1) :
                         (mapper.editedOffset[j] <= t /\ t < mapper.editedOffset[j + 1]) => j = i
                   /\ r.sourceTime = edl[i + 1].sourceStart + (t - mapper.editedOffset[i])
                   /\ edl[i + 1].sourceStart <= r.sourceTime
                   /\ r.sourceTime < edl[i + 1].sourceEnd
             /\ (t > TotalDuration(edl) \/ edl = <<>>) =>
                   (~r.ok /\ r.err = "OutOfRange")

\* An EDL of three segments of different lengths, the last out of source
\* order: edited time 3, the first sample of the second segment, is source
\* sample 4, and edited time 7 is out of range.
C27_Witness ==
    /\ edl = <<Segment(0, 3), Segment(4, 6), Segment(3, 4)>>
    /\ editedTimeToSource(edl, mapper, 3)
          = [ok |-> TRUE, err |-> "ok", segmentIndex |-> 1, sourceTime |-> 4]
    /\ editedTimeToSource(edl, mapper, 5).sourceTime = 3
    /\ editedTimeToSource(edl, mapper, 7).err = "OutOfRange"

\* C28: deleting words tombstones them.  For every document and every
\* startIndex and count, deleteRange leaves wordsById as it was, and the ids
\* it removed are still keys of it; a DeleteWords that was applied changed
\* `order` only, each removed id keeps its record, text and span, and
\* wordToEditedTime fails on it with UnknownWord; in every state
\* wordToEditedTime answers for exactly the ids of `order`; and after the
\* undo of the delete each removed id is found again, at the edited time it
\* had before.
C28_DeleteTombstones ==
    /\ [](/\ \A req \in AllDeletes(CurrentDoc) :
               LET r == deleteRange(CurrentDoc, req.startIndex, req.count)
               IN /\ r.doc.wordsById = wordsById
                  /\ r.ok => /\ Range(r.out) \subseteq DOMAIN r.doc.wordsById
                             /\ Range(r.out) \cap Range(r.doc.order) = {}
                             /\ \A id \in Range(r.out) : r.doc.wordsById[id] = wordsById[id]
          /\ \A id \in DOMAIN wordsById :
               /\ wordToEditedTime(edl, mapper, id).ok <=> id \in Range(order)
               /\ id \notin Range(order) =>
                     wordToEditedTime(edl, mapper, id).err = "UnknownWord")
    /\ [][/\ (ApplyStep /\ last'.ok /\ last'.req.type = "deleteWords") =>
               /\ wordsById' = wordsById
               /\ \A id \in Range(undoStack'[Len(undoStack')].removedWordIds) :
                     /\ id \in Range(order)
                     /\ id \in DOMAIN wordsById'
                     /\ wordsById'[id].text = wordsById[id].text
                     /\ wordsById'[id].span = wordsById[id].span
                     /\ id \notin Range(order')
                     /\ wordToEditedTime(edl', mapper', id).err = "UnknownWord"
          /\ (UndoStep /\ last'.ok /\ undoStack[Len(undoStack)].type = "deleteWords") =>
               /\ wordsById' = wordsById
               /\ \A id \in Range(undoStack[Len(undoStack)].removedWordIds) :
                     /\ ~wordToEditedTime(edl, mapper, id).ok
                     /\ wordToEditedTime(edl', mapper', id)
                           = wordToEditedTime(PreApply.edl,
                                              TimelineMapper(PreApply.edl, PreApplyDoc), id)
                     /\ wordToEditedTime(edl', mapper', id).ok]_vars

\* The delete of the first two of three words has just been undone: the
\* second word, a tombstone a step ago, is found again at edited time 2.
C28_Witness ==
    /\ last.op = "undo" /\ last.ok
    /\ redoStack = <<DeleteWordsCommand(0, <<"t1", "t2">>)>>
    /\ order = <<"t1", "t2", "t3">>
    /\ wordsById["t1"].span = Span(0, 2)
    /\ wordToEditedTime(edl, mapper, "t2") = [ok |-> TRUE, err |-> "ok", editedTime |-> 2]

\* The span holds at least one sample and every sample it holds is a
\* sample of the source.
InsideSource(span, total) ==
    /\ span.startSample < span.endSample
    /\ \A x \in span.startSample..(span.endSample - 1) : x \in 0..(total - 1)

\* C29: validate succeeds exactly on the spans that are non-empty and
\* inside the source, and fails with InvalidSpan on every other; a span
\* update or a pasted record with a span that fails it is rejected with
\* InvalidSpan and changes nothing; and every span stored in a document
\* passes it, the last word's span that ends at totalSamples included.
C29_ValidateSpan ==
    /\ \A sp \in AllSpans(media.totalSamples) :
          /\ validate(sp, media.totalSamples) = "ok" <=> InsideSource(sp, media.totalSamples)
          /\ ~InsideSource(sp, media.totalSamples) =>
                validate(sp, media.totalSamples) = "InvalidSpan"
    /\ \A req \in AllSpanUpdates(CurrentDoc, media.totalSamples) :
          LET r == updateSpan(CurrentDoc, req.wordId, req.afterSpan, <<>>,
                              media.totalSamples, strictCoverage)
          IN /\ r.ok <=> InsideSource(req.afterSpan, media.totalSamples)
             /\ ~r.ok => (r.err = "InvalidSpan" /\ r.doc = CurrentDoc)
    /\ \A req \in AllPastes(CurrentDoc, media.totalSamples) :
          LET r == insertRange(CurrentDoc, req.index, req.insertedWordIds,
                               req.insertedWordsById, media.totalSamples)
          IN ("w4" \notin DOMAIN wordsById
                /\ ~InsideSource(req.insertedWordsById["w4"].span, media.totalSamples)) =>
                (~r.ok /\ r.err = "InvalidSpan" /\ r.doc = CurrentDoc)
    /\ \A id \in DOMAIN wordsById :
          validate(wordsById[id].span, media.totalSamples) = "ok"
    /\ \A id \in DOMAIN wordsById :
          wordsById[id].span.endSample = media.totalSamples =>
             InsideSource(wordsById[id].span, media.totalSamples)

\* In a transcript of three words the first was just given the whole
\* source as its span: two stored spans end at totalSamples.
C29_Witness ==
    /\ last.op = "apply" /\ last.ok
    /\ last.req = SpanRequest("t1", Span(0, TileSamples), <<>>)
    /\ Len(order) = 3
    /\ wordsById["t1"].span.endSample = media.totalSamples
    /\ wordsById["t3"].span.endSample = media.totalSamples

\* ------------------------------------------------------------ transactions

\* The micro-edits a transaction groups: a paste, a delete of the first
\* word, a refinement of the last word's start, a move of the first word
\* to the end, and a delete past the end (rejected).
TransactionRequests(doc) ==
    ProjectRequests(doc)
    \cup {MoveRequest(0, 1, Len(doc.order) - 1), DeleteRequest(Len(doc.order), 1)}

\* begin transaction: Idle -> Recording.  `before` keeps the document
\* observed at this moment.
BeginTransaction ==
    /\ ~openTransaction.open
    /\ Len(undoStack) < MaxUndo
    /\ openTransaction' = [open |-> TRUE, commands |-> <<>>, before |-> Observed]
    /\ last' = [op |-> "begin", composite |-> FALSE, ok |-> TRUE, err |-> "ok", req |-> <<>>]
    /\ UNCHANGED <<wordsById, order, undoStack, redoStack, edl, mapper, media,
                   strictCoverage, cleanupOnUndo, undoPre, opened,
                   builderVars, mainVars, transcribeVars, rendererVars, uiVars>>

\* record a sub-command: it is applied to the document and kept by the
\* transaction, not pushed; a rejected one changes nothing.
RecordSubCommand ==
    /\ openTransaction.open
    /\ Len(openTransaction.commands) < MaxSubs
    /\ \E req \in TransactionRequests(CurrentDoc) :
       \E out \in {ApplyPrimitive(CurrentDoc, req, media.totalSamples, strictCoverage)} :
          /\ wordsById' = out.doc.wordsById
          /\ order' = out.doc.order
          /\ edl' = EDLBuilder(out.doc)
          /\ mapper' = TimelineMapper(EDLBuilder(out.doc), out.doc)
          /\ openTransaction' =
                IF out.ok
                THEN [openTransaction EXCEPT !.commands = Append(@, out.cmd)]
                ELSE openTransaction
          /\ last' = [op |-> "record", composite |-> FALSE, ok |-> out.ok, err |-> out.err,
                      req |-> IF out.ok THEN req ELSE <<>>]
    /\ UNCHANGED <<undoStack, redoStack, media, strictCoverage, cleanupOnUndo, undoPre,
                   opened, builderVars, mainVars, transcribeVars, rendererVars, uiVars>>

\* end transaction: Recording -> Idle, the recorded sub-commands pushed as
\* one Composite.
EndTransaction ==
    /\ openTransaction.open
    /\ undoStack' = Append(undoStack, CompositeCommand(openTransaction.commands))
    /\ redoStack' = <<>>
    /\ undoPre' = Append(undoPre, openTransaction.before)
    /\ openTransaction' = NoTransaction
    /\ last' = [op |-> "end", composite |-> TRUE, ok |-> TRUE, err |-> "ok", req |-> <<>>]
    /\ UNCHANGED <<wordsById, order, edl, mapper, media, strictCoverage, cleanupOnUndo,
                   opened, builderVars, mainVars, transcribeVars, rendererVars, uiVars>>

\* Idle -> (apply command) -> Idle, and undo and redo, outside a transaction.
IdleApply ==
    /\ ~openTransaction.open
    /\ \E req \in TransactionRequests(CurrentDoc) : Apply(req)

IdleUndo == ~openTransaction.open /\ Undo

IdleRedo == ~openTransaction.open /\ Redo

TransactionNext ==
    \/ BeginTransaction \/ RecordSubCommand \/ EndTransaction
    \/ IdleApply \/ IdleUndo \/ IdleRedo

TransactionSpec == Init /\ [][TransactionNext]_vars

\* The steps of the state machine.
BeginStep == ~openTransaction.open /\ openTransaction'.open

RecordingStep == openTransaction.open /\ openTransaction'.open

EndStep == openTransaction.open /\ ~openTransaction'.open

\* A transaction is one undo step, everything but the restoration: begin
\* leaves Idle with nothing recorded and touches neither stack nor document;
\* while Recording the stacks do not change and each step records at most
\* one more sub-command; end pushes the recorded sub-commands as exactly one
\* Composite, clears redoStack and leaves the document alone; and one undo
\* of a Composite pops it and reverts its sub-commands last one first.
TransactionIsOneUndoStep ==
    /\ BeginStep =>
          /\ openTransaction'.commands = <<>>
          /\ UNCHANGED <<wordsById, order, undoStack, redoStack>>
    /\ RecordingStep =>
          /\ UNCHANGED <<undoStack, redoStack>>
          /\ \/ /\ openTransaction' = openTransaction
                /\ UNCHANGED <<wordsById, order>>
             \/ /\ Len(openTransaction'.commands) = Len(openTransaction.commands) + 1
                /\ SubSeq(openTransaction'.commands, 1, Len(openTransaction.commands))
                      = openTransaction.commands
                /\ Doc(wordsById', order')
                      = ApplyPrimitive(CurrentDoc, last'.req, media.totalSamples,
                                       strictCoverage).doc
    /\ EndStep =>
          /\ undoStack' = Append(undoStack, CompositeCommand(openTransaction.commands))
          /\ redoStack' = <<>>
          /\ UNCHANGED <<wordsById, order>>
    /\ (UndoStep /\ last'.ok /\ undoStack[Len(undoStack)].type = "composite") =>
          /\ undoStack' = SubSeq(undoStack, 1, Len(undoStack) - 1)
          /\ redoStack' = Append(redoStack, undoStack[Len(undoStack)])
          /\ order' = PreApply.order

MaxTranscriptions == 2

\* How many chunks of stdout make the whole JSON of a transcript.
StdoutChunks == 2

\* The word list the python script prints for a run, as parsed.
TranscriptWord(word, start, end) == [word |-> word, start |-> start, end |-> end]

TranscriptOf(run) ==
    IF run = 1
    THEN <<TranscriptWord("Hello", 0, 400), TranscriptWord("world", 400, 900),
           TranscriptWord("demo", 900, 1500)>>
    ELSE <<TranscriptWord("Hola", 0, 500), TranscriptWord("mundo", 500, 1200)>>

\* The promise of the call, pending and settled.
PendingCall == [state |-> "pending", value |-> <<>>, error |-> ""]

Resolved(value) == [state |-> "resolved", value |-> value, error |-> ""]

Rejected_(error) == [state |-> "rejected", value |-> <<>>, error |-> error]

\* A settlement in which the later resolve or reject wins.
SettleLastWins(promise, outcome) == outcome

\* resolve and reject settle a pending promise and do nothing to a settled one.
Settle(promise, outcome) == IF promise.state = "pending" THEN outcome ELSE promise

\* A close handler that resolves with whatever stdout held when the child
\* ended.
CloseOutcomeResolvesStdout(child) ==
    Resolved(SubSeq(TranscriptOf(child.run), 1,
                    IF child.stdout = StdoutChunks THEN Len(TranscriptOf(child.run))
                    ELSE child.stdout))

\* child.on("close", (code, signal) => ...): the first reject or resolve the
\* handler reaches.  The switch on the signal does not return, so the
\* checks of the exit code follow it, on a promise that is settled by then.
CloseOutcome(child) ==
    IF child.signal = "SIGKILL" THEN Rejected_("transcription cancelled.")
    ELSE IF child.signal = "SIGTSTP" THEN Rejected_("transcription paused.")
    ELSE IF child.code = "null" THEN Rejected_("transcribe exited with null")
    ELSE IF child.code = "-2" THEN Rejected_("transcribe exited with -2")
    ELSE IF child.code # "0" THEN Rejected_("transcribe exited with 1")
    ELSE IF child.stdout = StdoutChunks THEN Resolved(TranscriptOf(child.run))
    ELSE Rejected_("Failed to parse JSON from transcribe")

\* Paths and names are sequences of components, the text between slashes.
\* path.join(repoRoot, "otter_py", "sample_specs")
SampleSpecs == <<"repo", "otter_py", "sample_specs">>

\* path.normalize, which path.join ends with: "." and empty components are
\* dropped and ".." removes the component before it.
RECURSIVE Normalize(_, _)
Normalize(done, rest) ==
    IF rest = <<>> THEN done
    ELSE IF Head(rest) \in {"", "."} THEN Normalize(done, Tail(rest))
    ELSE IF Head(rest) = ".."
    THEN Normalize(IF done = <<>> THEN done ELSE SubSeq(done, 1, Len(done) - 1), Tail(rest))
    ELSE Normalize(Append(done, Head(rest)), Tail(rest))

\* path.join(dir, name)
Join(dir, name) == Normalize(<<>>, dir \o name)

\* The path is inside the directory, and directly in it.
Inside(dir, path) == Len(path) > Len(dir) /\ SubSeq(path, 1, Len(dir)) = dir

DirectlyIn(dir, path) == Len(path) = Len(dir) + 1 /\ SubSeq(path, 1, Len(dir)) = dir

\* The spec arguments transcribe-audio pushes to argv.
SpecArgv(spec) ==
    IF spec.mode = "file"
    THEN [flag |-> "--spec-file", path |-> Join(SampleSpecs, spec.name)]
    ELSE IF spec.mode = "json"
    THEN [flag |-> "--spec-json", path |-> <<>>]
    ELSE [flag |-> "--spec-file", path |-> Join(SampleSpecs, <<"default_spec.json">>)]

FileSpec(name) == [mode |-> "file", name |-> name]

JsonSpec == [mode |-> "json", name |-> <<>>]

\* getActiveSpecArg(): the custom JSON, or the preset selected from the list.
ActiveSpecArgs == {JsonSpec, FileSpec(<<"default_spec.json">>)}

\* The handler of transcribe-audio up to the promise: the spec arguments
\* are chosen and the child is spawned, or the spawn fails and the promise
\* is rejected by the child's error event.
TranscribeAudioHandler(spec, run) ==
    /\ argv' = SpecArgv(spec)
    /\ \E spawned \in BOOLEAN :
          /\ python' = [state |-> IF spawned THEN "running" ELSE "exited",
                        stdout |-> 0, sigterm |-> FALSE,
                        code |-> IF spawned THEN "null" ELSE "-2",
                        signal |-> "null", cancelled |-> FALSE,
                        run |-> run]
          /\ pending' = IF spawned THEN PendingCall ELSE Rejected_("spawn python3 ENOENT")
    /\ activeProcess' = "child"

\* btnTranscribe click handler up to the await, and the transcribe-audio
\* handler it invokes.
ClickTranscribe ==
    /\ audioPath # "null"
    /\ ~btnTranscribe.disabled
    /\ btnTranscribe.clicks < MaxTranscriptions
    /\ python.state \in {"none", "closed"}
    /\ btnTranscribe' = [disabled |-> TRUE, awaiting |-> TRUE,
                         clicks |-> btnTranscribe.clicks + 1]
    /\ \E spec \in ActiveSpecArgs : TranscribeAudioHandler(spec, btnTranscribe.clicks + 1)
    /\ UNCHANGED <<words, stderrPipe, written, sent, specFile, engineVars, builderVars,
                   mainVars, uiVars>>

\* child.stdout.on("data"): one more chunk of the JSON arrives.
StdoutData ==
    /\ python.state = "running"
    /\ python.stdout < StdoutChunks
    /\ python' = [python EXCEPT !.stdout = @ + 1]
    /\ UNCHANGED <<activeProcess, pending, words, btnTranscribe, engineVars, builderVars,
                   mainVars, rendererVars, uiVars>>

\* The child ends by itself: with exit code 0, with exit code 1, or killed
\* by the system.
PythonExits ==
    /\ python.state = "running"
    /\ \E end \in {[code |-> "0", signal |-> "null"], [code |-> "1", signal |-> "null"],
                   [code |-> "null", signal |-> "SIGKILL"]} :
          python' = [python EXCEPT !.state = "exited", !.code = end.code,
                                   !.signal = end.signal]
    /\ UNCHANGED <<activeProcess, pending, words, btnTranscribe, engineVars, builderVars,
                   mainVars, rendererVars, uiVars>>

\* The operating system delivers a pending SIGTERM to the child, which
\* ends by it.  A stopped process takes no signal but SIGKILL and SIGCONT.
SigtermDelivered ==
    /\ python.state = "running"
    /\ python.sigterm
    /\ python' = [python EXCEPT !.state = "exited", !.code = "null", !.signal = "SIGTERM"]
    /\ UNCHANGED <<activeProcess, pending, words, btnTranscribe, engineVars, builderVars,
                   mainVars, rendererVars, uiVars>>

\* child.on("close")
CloseHandler ==
    /\ python.state = "exited"
    /\ activeProcess' = "null"
    /\ pending' = Settle(pending, CloseOutcome(python))
    /\ python' = [python EXCEPT !.state = "closed"]
    /\ UNCHANGED <<words, btnTranscribe, engineVars, builderVars, mainVars,
                   rendererVars, uiVars>>

\* What activeProcess.kill(signal) returns: whether the signal was sent.
Alive == activeProcess # "null" /\ python.state \in {"running", "stopped"}

KillReply(handler) ==
    Reply(handler, IF Alive THEN "true" ELSE "false", "", Absent, "")

\* ipcMain.handle("cancel-transcription"): SIGTERM to the active process.
CancelTranscription ==
    /\ reply' = KillReply("cancel-transcription")
    /\ python' = IF Alive THEN [python EXCEPT !.sigterm = TRUE, !.cancelled = TRUE]
                 ELSE python
    /\ UNCHANGED <<activeProcess, pending, words, btnTranscribe, disk, children,
                   engineVars, builderVars, rendererVars, uiVars>>

\* ipcMain.handle("pause-transcription"): SIGSTOP to the active process.
PauseTranscription ==
    /\ reply' = KillReply("pause-transcription")
    /\ python' = IF Alive THEN [python EXCEPT !.state = "stopped"] ELSE python
    /\ UNCHANGED <<activeProcess, pending, words, btnTranscribe, disk, children,
                   engineVars, builderVars, rendererVars, uiVars>>

\* ipcMain.handle("resume-transcription"): SIGCONT to the active process.
ResumeTranscription ==
    /\ reply' = KillReply("resume-transcription")
    /\ python' = IF Alive THEN [python EXCEPT !.state = "running"] ELSE python
    /\ UNCHANGED <<activeProcess, pending, words, btnTranscribe, disk, children,
                   engineVars, builderVars, rendererVars, uiVars>>

\* ------------------------------------ renderer: selection and playhead

\* Times are in milliseconds.
SEEK_EPS == 10

\* A range taken as given, its ends not put in order.
normalizeRangeAsGiven(a, b) == [start |-> a, end |-> b]

normalizeRange(a, b) ==
    IF a <= b THEN [start |-> a, end |-> b] ELSE [start |-> b, end |-> a]

\* The three selection variables of the renderer, as one value.
Selection == [start |-> selectionStart, end |-> selectionEnd, anchor |-> selectionAnchor]

\* setSelectionRange(start, end), applied to the selection sel.
setSelectionRange(sel, start, end) ==
    IF start = Null \/ end = Null
    THEN [start |-> Null, end |-> Null, anchor |-> Null]
    ELSE [start |-> normalizeRange(start, end).start,
          end |-> normalizeRange(start, end).end, anchor |-> sel.anchor]

\* renderTranscript re-applies the selection to the list it rendered.
ReappliedSelection(sel, list) ==
    IF sel.start # Null /\ sel.end # Null
    THEN IF sel.start > Len(list) - 1 \/ sel.end > Len(list) - 1
         THEN setSelectionRange(sel, Null, Null)
         ELSE setSelectionRange(sel, sel.start, sel.end)
    ELSE sel

\* renderTranscript re-applies the playhead.
ReappliedPlayhead(idx, list) == IF idx >= 0 /\ idx < Len(list) THEN idx ELSE -1

\* renderTranscript(list): one span per word, then selection and playhead
\* are applied again.
renderTranscript(list) ==
    /\ transcriptEl' = list
    /\ \E sel \in {ReappliedSelection(Selection, list)} :
          /\ selectionStart' = sel.start
          /\ selectionEnd' = sel.end
          /\ selectionAnchor' = sel.anchor
    /\ playheadIndex' = ReappliedPlayhead(playheadIndex, list)
    /\ computedFrom' =
          [selection |-> IF ReappliedSelection(Selection, list).start = Null
                         THEN "null" ELSE computedFrom.selection,
           playhead |-> IF ReappliedPlayhead(playheadIndex, list) = -1
                        THEN "null" ELSE computedFrom.playhead]

\* btnTranscribe click handler after the await: the words are replaced by
\* the result and rendered, or the error is logged; finally the buttons are
\* enabled.
TranscribeSettled ==
    /\ btnTranscribe.awaiting
    /\ pending.state \in {"resolved", "rejected"}
    /\ IF pending.state = "resolved"
       THEN /\ words' = pending.value
            /\ transcribedFrom' = audioPath
            /\ renderTranscript(pending.value)
       ELSE UNCHANGED <<words, transcribedFrom, transcriptEl, selectionVars>>
    /\ btnTranscribe' = [btnTranscribe EXCEPT !.disabled = FALSE, !.awaiting = FALSE]
    /\ UNCHANGED <<activeProcess, python, pending, engineVars, builderVars, mainVars,
                   rendererVars, earlier, audioPath, ws, detailVars>>

TranscriptionNext ==
    \/ ClickTranscribe \/ StdoutData \/ PythonExits \/ SigtermDelivered \/ CloseHandler
    \/ CancelTranscription \/ PauseTranscription \/ ResumeTranscription
    \/ TranscribeSettled

TranscriptionSpec == MainInit /\ [][TranscriptionNext]_vars

\* The same program with the steps that need no user: the operating system
\* delivers a pending signal whenever the process runs (at once when it is
\* continued, hence strong fairness), Node emits close for a child that
\* ended, and the renderer resumes a handler whose await settled.
TranscriptionFairSpec ==
    /\ MainInit
    /\ [][TranscriptionNext]_vars
    /\ SF_vars(SigtermDelivered)
    /\ WF_vars(CloseHandler)
    /\ WF_vars(TranscribeSettled)

\* The child of the call in flight was ended by the signal that
\* cancel-transcription sent, and its close handler has run.
TerminatedThroughCancel ==
    /\ python.state = "closed"
    /\ python.cancelled
    /\ python.signal = "SIGTERM"

\* C30: when a running transcription is terminated through
\* cancel-transcription, the pending transcribe-audio call is rejected with
\* "transcription cancelled.", never with "transcribe exited with ..." and
\* never resolved.
C30_CancelRejectsAsCancelled ==
    TerminatedThroughCancel =>
        /\ pending.state = "rejected"
        /\ pending.error = "transcription cancelled."

\* cancel-transcription has signalled the child of the call in flight, which
\* has not ended yet.
CancelInvokedWhileActive ==
    /\ python.cancelled
    /\ python.state \in {"running", "stopped"}

\* C22: whenever cancel-transcription is invoked while a transcription
\* process is active, paused or not, the process eventually terminates,
\* the pending transcribe-audio call settles and activeProcess is null
\* again, with no further user action such as resume-transcription.
C22_CancelEventuallyTerminates ==
    CancelInvokedWhileActive ~>
        /\ python.state = "closed"
        /\ pending.state \in {"resolved", "rejected"}
        /\ activeProcess = "null"

\* The word list is empty, as at start, or the whole transcript of a run.
WholeTranscript ==
    words = <<>> \/ \E run \in 1..MaxTranscriptions : words = TranscriptOf(run)

\* A step that replaces the word list does so with the whole result of a
\* call that resolved, for a child that ended with code 0 and all of its
\* output delivered.
ReplacedOnSuccessOnly ==
    words' # words =>
        /\ pending.state = "resolved"
        /\ python.code = "0" /\ python.signal = "null"
        /\ python.stdout = StdoutChunks
        /\ words' = TranscriptOf(python.run)

\* A step in which the click handler learns that the call failed, or that
\* its child was signalled by cancel-transcription and did not succeed,
\* leaves the word list as it was.
KeptOnFailureOrCancel ==
    (/\ btnTranscribe.awaiting /\ ~btnTranscribe'.awaiting
     /\ pending.state = "rejected")
        => words' = words

\* C21: transcription results are committed all-or-nothing: the word list
\* is replaced by the complete result only when the job succeeds, is left
\* exactly as it was when the job fails or is cancelled, and no partial
\* word list is ever observable.
C21_AllOrNothing ==
    /\ []WholeTranscript
    /\ [][ReplacedOnSuccessOnly /\ KeptOnFailureOrCancel]_vars

\* A second transcription was cancelled after part of its output arrived,
\* and the click handler has finished: the words of the first are kept.
C21_Witness ==
    /\ words = TranscriptOf(1)
    /\ python.run = 2 /\ python.cancelled /\ python.signal = "SIGTERM"
    /\ python.stdout = 1
    /\ pending.state = "rejected"
    /\ ~btnTranscribe.awaiting

\* ------------------------------------------------ export as a state machine

\* The export of MainSpec with the steps that need no user: a spawned
\* ffmpeg opens its files or fails to start, and one that runs on a finite
\* input ends, on which Node emits close.
MainFairSpec ==
    /\ MainInit
    /\ [][MainNext]_vars
    /\ WF_vars(FfmpegSpawnError \/ FfmpegOpen)
    /\ WF_vars(FfmpegClose)

\* The states of an export: Rendering while its ffmpeg child lives, then
\* Completed (the promise resolved with the path) or Failed (it rejected).
\* The handlers offer no cancel for an export.
Rendering == children # {}

Completed(r) == r.handler = "export-edl-audio" /\ r.result = "path"

Failed(r) == r.handler = "export-edl-audio" /\ r.result = "error"

\* C23: an export goes Idle -> Rendering -> exactly one of Completed,
\* Cancelled, Failed: only a start leaves Idle, every started job
\* eventually reaches exactly one terminal state and stays there, and
\* Completed is reached only after all segments of the job were forwarded
\* to the output in order.
C23_ExportStateMachine ==
    /\ [][/\ (~Rendering /\ Rendering') =>
                \E c \in children' : children' = {c} /\ c.phase = "spawned"
          /\ \A c \in children :
                ~Rendering' =>
                   /\ Completed(reply') # Failed(reply')
                   /\ Completed(reply') =>
                         /\ c.phase = "writing"
                         /\ disk'[Resolve(c.output)] = WavFile(c.segments)]_vars
    /\ Rendering ~> ~Rendering

\* The call in flight has settled and this step starts no new call.
SettledCallStep ==
    /\ pending.state \in {"resolved", "rejected"}
    /\ btnTranscribe'.clicks = btnTranscribe.clicks

\* The child closed with exit code 0, by no signal, and all of its stdout
\* arrived, so that it parses as JSON.
ClosedWithTranscript ==
    /\ python.state = "closed"
    /\ python.code = "0" /\ python.signal = "null"
    /\ python.stdout = StdoutChunks

\* C31: each transcribe-audio invocation settles exactly once: it resolves
\* with the parsed object only if the child closed with exit code 0 and its
\* complete stdout parsed as JSON, it rejects in every other case (spawn
\* error, non-zero or null exit code, termination by signal, unparsable
\* stdout), and no callback arriving after settlement changes the outcome.
C31_SettlesExactlyOnce ==
    /\ [](pending.state = "resolved" =>
             ClosedWithTranscript /\ pending.value = TranscriptOf(python.run))
    /\ []((python.state = "closed" /\ ~ClosedWithTranscript) =>
             pending.state = "rejected")
    /\ [](python.state = "closed" => pending.state \in {"resolved", "rejected"})
    /\ [][SettledCallStep => pending' = pending]_vars

\* The spawn failed, the error event rejected the call, and the close event
\* that followed has been handled: the rejection is still the spawn error.
C31_Witness ==
    /\ python.state = "closed"
    /\ python.code = "-2"
    /\ pending = Rejected_("spawn python3 ENOENT")

\* ------------------------------------- transcription progress over stderr

\* Into how many data chunks the stream delivers what the child wrote.
MaxChunks == 2

\* Texts are sequences of characters.
Digits == {"0", "1", "2", "3", "4", "5", "6", "7", "8", "9"}

\* What \s matches, among the characters of the texts.
Whitespace == {" ", "\t", "\r", "\n"}

DigitValue(d) ==
    CASE d = "0" -> 0 [] d = "1" -> 1 [] d = "2" -> 2 [] d = "3" -> 3 [] d = "4" -> 4
      [] d = "5" -> 5 [] d = "6" -> 6 [] d = "7" -> 7 [] d = "8" -> 8 [] d = "9" -> 9

\* Number(m[1])
RECURSIVE NumberOf(_)
NumberOf(digits) ==
    IF digits = <<>> THEN 0
    ELSE 10 * NumberOf(SubSeq(digits, 1, Len(digits) - 1)) + DigitValue(digits[Len(digits)])

ProgressPrefix == <<"P", "R", "O", "G", "R", "E", "S", "S", ":">>

\* How many digits /^PROGRESS:(\d{1,3})\s*$/ captures in the line, 0 when
\* the line does not match.
Captured(line) ==
    IF Len(line) <= Len(ProgressPrefix)
       \/ SubSeq(line, 1, Len(ProgressPrefix)) # ProgressPrefix
    THEN 0
    ELSE LET rest == SubSeq(line, Len(ProgressPrefix) + 1, Len(line))
             fits == {k \in 1..3 :
                         /\ k <= Len(rest)
                         /\ \A i \in 1..k : rest[i] \in Digits
                         /\ \A i \in (k + 1)..Len(rest) : rest[i] \in Whitespace}
         IN  IF fits = {} THEN 0 ELSE CHOOSE k \in fits : \A j \in fits : j <= k

\* line.match(...) succeeded
IsProgress(line) == Captured(line) > 0

ProgressValue(line) ==
    NumberOf(SubSeq(line, Len(ProgressPrefix) + 1, Len(ProgressPrefix) + Captured(line)))

\* s.indexOf("\n"), counting from 1, in a text that holds a newline.
FirstNewline(s) == CHOOSE i \in 1..Len(s) : s[i] = "\n" /\ \A j \in 1..(i - 1) : s[j] # "\n"

\* s.split(/\r?\n/)
RECURSIVE SplitLines(_)
SplitLines(s) ==
    IF \A i \in 1..Len(s) : s[i] # "\n" THEN <<s>>
    ELSE LET nl == FirstNewline(s)
             end == IF nl > 1 /\ s[nl - 1] = "\r" THEN nl - 2 ELSE nl - 1
         IN  <<SubSeq(s, 1, end)>> \o SplitLines(SubSeq(s, nl + 1, Len(s)))

\* line.trim() is not empty
Visible(line) == \E i \in 1..Len(line) : line[i] \notin Whitespace

Send(channel, arg) == [channel |-> channel, arg |-> arg]

\* What the loop over the lines of one chunk sends.
RECURSIVE SendLines(_)
SendLines(lines) ==
    IF lines = <<>> THEN <<>>
    ELSE (IF IsProgress(Head(lines))
          THEN <<Send("transcribe-progress", ProgressValue(Head(lines)))>>
          ELSE IF Visible(Head(lines))
          THEN <<Send("transcribe-log", Head(lines) \o <<"\n">>)>>
          ELSE <<>>)
         \o SendLines(Tail(lines))

\* child.stderr.on("data", ...): each chunk is split and sent by itself.
StderrDataHandler(chunk) == SendLines(SplitLines(chunk))

\* What the transcriber writes: progress lines with values in 0..100, and
\* log lines between them.
StderrTexts ==
    { ProgressPrefix \o <<"5", "\n">> \o ProgressPrefix \o <<"4", "2", "\n">>,
      <<"o", "k", "\n">> \o ProgressPrefix \o <<"1", "0", "0", "\r", "\n">>,
      ProgressPrefix \o <<"0", " ", "\n", "\n">> \o <<"e", "r", "r", "\n">> }

\* The ways the stream cuts a text into chunks.
Chunkings(text) ==
    {<<text>>} \cup
    (IF MaxChunks < 2 THEN {}
     ELSE {<<SubSeq(text, 1, k), SubSeq(text, k + 1, Len(text))>> : k \in 1..(Len(text) - 1)})

\* The running child writes to stderr; the stream will deliver it in chunks.
StderrWrite ==
    /\ python.state = "running"
    /\ written = <<>>
    /\ \E text \in StderrTexts :
          /\ written' = text
          /\ \E chunks \in Chunkings(text) : stderrPipe' = chunks
    /\ UNCHANGED <<sent, argv, specFile, engineVars, builderVars, mainVars, transcribeVars, uiVars>>

\* child.stderr.on("data")
StderrData ==
    /\ stderrPipe # <<>>
    /\ sent' = sent \o StderrDataHandler(Head(stderrPipe))
    /\ stderrPipe' = Tail(stderrPipe)
    /\ UNCHANGED <<written, argv, specFile, engineVars, builderVars, mainVars,
                   transcribeVars, uiVars>>

ProgressNext == ClickTranscribe \/ StderrWrite \/ StderrData

ProgressSpec == MainInit /\ [][ProgressNext]_vars

\* The values of the progress events, and the texts of the log events, of a
\* sequence of events.
ProgressArgs(events) ==
    LET p == SelectSeq(events, LAMBDA e : e.channel = "transcribe-progress")
    IN  [i \in 1..Len(p) |-> p[i].arg]

LogArgs(events) == {events[i].arg : i \in {j \in 1..Len(events) :
                                              events[j].channel = "transcribe-log"}}

\* The lines the transcriber wrote, and the values of its progress lines.
WrittenLines == SplitLines(written)

WrittenProgress ==
    LET p == SelectSeq(WrittenLines, IsProgress)
    IN  [i \in 1..Len(p) |-> ProgressValue(p[i])]

\* All of stderr has been delivered to the data handler.
StderrDrained == written # <<>> /\ stderrPipe = <<>>

\* C32: every line PROGRESS:NN the transcriber writes to stderr produces
\* exactly one transcribe-progress event carrying NN, in emission order, and
\* is never forwarded as a transcribe-log message, however the stream is
\* split into chunks; every progress value sent is an integer in 0..100.
C32_ProgressStreamedFaithfully ==
    /\ StderrDrained =>
          /\ ProgressArgs(sent) = WrittenProgress
          /\ LogArgs(sent) \subseteq
                {WrittenLines[i] \o <<"\n">> :
                    i \in {j \in 1..Len(WrittenLines) : ~IsProgress(WrittenLines[j])}}
    /\ \A i \in 1..Len(sent) :
          sent[i].channel = "transcribe-progress" => sent[i].arg \in 0..100

\* ------------------------------------------------- spec files of transcription

\* The files and directories of the repository that matter here.
SpecFiles == {SampleSpecs \o <<"default_spec.json">>, SampleSpecs \o <<"fast.json">>,
              <<"repo", "otter_py", "transcribe.py">>, <<"repo", "secret.txt">>}

Directories == {<<>>, <<"repo">>, <<"repo", "otter_py">>, SampleSpecs}

\* The names a caller of the IPC channels can give: presets, a name with
\* no file behind it, and names that lead out of the directory.
SpecNames ==
    {<<"default_spec.json">>, <<"fast.json">>, <<"missing.json">>, <<"..">>,
     <<"..", "transcribe.py">>, <<"..", "..", "secret.txt">>, <<"", "repo", "secret.txt">>,
     <<"sub", "..", "fast.json">>, <<"fast.json", "">>}

\* path.basename(name): the last component, whatever slashes follow it.
RECURSIVE Basename(_)
Basename(name) ==
    IF name = <<>> THEN <<>>
    ELSE IF name[Len(name)] = "" THEN Basename(SubSeq(name, 1, Len(name) - 1))
    ELSE <<name[Len(name)]>>

\* ipcMain.handle("read-spec-file") called with name
ReadSpecFileHandler(name) ==
    IF Basename(name) # name
    THEN /\ reply' = Reply("read-spec-file", "error", "", Absent, "Invalid spec file name")
         /\ specFile' = [name |-> name, read |-> <<>>]
    ELSE IF Join(SampleSpecs, name) \notin SpecFiles \cup Directories
    THEN /\ reply' = Reply("read-spec-file", "error", "", Absent, "Spec file not found")
         /\ specFile' = [name |-> name, read |-> <<>>]
    ELSE IF Join(SampleSpecs, name) \in Directories
    THEN /\ reply' = Reply("read-spec-file", "error", "", Absent, "EISDIR")
         /\ specFile' = [name |-> name, read |-> <<>>]
    ELSE /\ reply' = Reply("read-spec-file", "content", "", Absent, "")
         /\ specFile' = [name |-> name, read |-> Join(SampleSpecs, name)]

ReadSpecFile ==
    /\ \E name \in SpecNames : ReadSpecFileHandler(name)
    /\ UNCHANGED <<stderrPipe, written, sent, argv, disk, children, engineVars,
                   builderVars, transcribeVars, uiVars>>

\* ipcMain.handle("transcribe-audio") invoked with a spec in file mode, in
\* JSON mode, or with none.
TranscribeAudio ==
    /\ python.state \in {"none", "closed"}
    /\ python.run < MaxTranscriptions
    /\ \E spec \in {FileSpec(name) : name \in SpecNames} \cup
                     {JsonSpec, [mode |-> "none", name |-> <<>>]} :
          TranscribeAudioHandler(spec, python.run + 1)
    /\ UNCHANGED <<words, btnTranscribe, stderrPipe, written, sent, specFile, engineVars,
                   builderVars, mainVars, uiVars>>

SpecFileNext == ReadSpecFile \/ TranscribeAudio \/ PythonExits \/ CloseHandler

SpecFileSpec == MainInit /\ [][SpecFileNext]_vars

\* C33: spec-file access is confined to otter_py/sample_specs: read-spec-file
\* reads a file only if it lies directly in that directory and rejects any
\* name with a directory component with "Invalid spec file name", and the
\* --spec-file path transcribe-audio passes in file mode always lies
\* inside that directory.
C33_SpecFilesConfined ==
    /\ specFile.read # <<>> => DirectlyIn(SampleSpecs, specFile.read)
    /\ Len(specFile.name) > 1 =>
          reply = Reply("read-spec-file", "error", "", Absent, "Invalid spec file name")
    /\ argv.flag = "--spec-file" => Inside(SampleSpecs, argv.path)

\* ------------------------------------------------ the filter of an export

\* The position in entries of the k-th entry that is not muted.
NthAudible(entries, k) ==
    CHOOSE i \in 1..Len(entries) :
        /\ ~entries[i].muted
        /\ Cardinality({j \in 1..i : ~entries[j].muted}) = k

\* C34: export-edl-audio renders exactly the non-muted entries of
\* edl.entries, each once and in EDL order: the filter has one atrim
\* [sourceStart, sourceEnd] per non-muted entry, the concat count n is the
\* number of non-muted entries, muted entries contribute nothing, and when
\* the save dialog is cancelled it returns null without spawning ffmpeg or
\* writing any file.
C34_FilterIsTheNonMutedEntries ==
    [][/\ \A c \in children' \ children :
             c.phase = "spawned" =>
                /\ Len(c.segments) =
                      Cardinality({i \in 1..Len(c.edl.entries) : ~c.edl.entries[i].muted})
                /\ \A k \in 1..Len(c.segments) :
                      /\ c.segments[k].sourceStart =
                            c.edl.entries[NthAudible(c.edl.entries, k)].sourceStart
                      /\ c.segments[k].sourceEnd =
                            c.edl.entries[NthAudible(c.edl.entries, k)].sourceEnd
       /\ (reply' # reply /\ reply' = Reply("export-edl-audio", "null", "", Absent, "")) =>
             children' = children /\ disk' = disk]_vars

\* An export of an EDL of three entries, one of them muted, has spawned
\* ffmpeg with a filter of two ranges.
C34_Witness ==
    \E c \in children :
        /\ c.phase = "spawned"
        /\ Len(c.edl.entries) = 3
        /\ \E i \in 1..3 : c.edl.entries[i].muted
        /\ Len(c.segments) = 2

\* ------------------------------------------------------- redo inverts undo

\* The engine after k calls of undo(), and after k calls of redo().
RECURSIVE UndoTimes(_, _)
UndoTimes(eng, k) ==
    IF k = 0 THEN eng ELSE UndoTimes(EngineUndo(eng, cleanupOnUndo).eng, k - 1)

RECURSIVE RedoTimes(_, _)
RedoTimes(eng, k) ==
    IF k = 0 THEN eng
    ELSE RedoTimes(EngineRedo(eng, media.totalSamples, strictCoverage, cleanupOnUndo).eng,
                   k - 1)

\* C36: redo is the exact inverse of undo: in every reachable state with a
\* non-empty undoStack, undo() followed at once by redo() restores
\* wordsById, order and both stacks, and k undos followed by k redos
\* restore the state before the first undo.
C36_RedoInvertsUndo ==
    \A k \in 1..Len(undoStack) :
        /\ UndoTimes(Engine, k).undoStack = SubSeq(undoStack, 1, Len(undoStack) - k)
        /\ Len(UndoTimes(Engine, k).redoStack) = Len(redoStack) + k
        /\ RedoTimes(UndoTimes(Engine, k), k).doc = CurrentDoc
        /\ RedoTimes(UndoTimes(Engine, k), k).undoStack = undoStack
        /\ RedoTimes(UndoTimes(Engine, k), k).redoStack = redoStack

\* Two commands are on undoStack, the later one put back by a redo after
\* its undo, and one of them pasted a record the document did not hold.
C36_Witness ==
    /\ Len(undoStack) = 2
    /\ last.op = "redo" /\ last.ok
    /\ \E i \in 1..2 : undoStack[i].type = "insertWords"

\* ------------------------- transcribe-audio invoked while a child still runs

\* A process that has not ended: running, or stopped by SIGSTOP.
Running(child) == child.state \in {"running", "stopped"}

\* ipcMain.handle("transcribe-audio") invoked while the child of the call
\* before has not closed: the handler spawns another child and assigns it
\* to activeProcess; the earlier child and its promise live on.
TranscribeAudioAgain ==
    /\ python.state \in {"running", "stopped", "exited"}
    /\ earlier.child.state \in {"none", "closed"}
    /\ python.run < MaxTranscriptions
    /\ earlier' = [child |-> python, call |-> pending]
    /\ \E spec \in ActiveSpecArgs : TranscribeAudioHandler(spec, python.run + 1)
    /\ UNCHANGED <<words, btnTranscribe, stderrPipe, written, sent, specFile, engineVars,
                   builderVars, mainVars, viewVars>>

\* The earlier child ends: by itself, or by a SIGTERM that was pending.
EarlierExits ==
    /\ earlier.child.state = "running"
    /\ \E end \in {[code |-> "0", signal |-> "null"], [code |-> "1", signal |-> "null"]}
                  \cup (IF earlier.child.sigterm
                        THEN {[code |-> "null", signal |-> "SIGTERM"]} ELSE {}) :
          earlier' = [earlier EXCEPT !.child.state = "exited", !.child.code = end.code,
                                     !.child.signal = end.signal]
    /\ UNCHANGED <<engineVars, builderVars, mainVars, transcribeVars, rendererVars,
                   viewVars>>

\* child.on("close") of the earlier child: the same handler, closed over
\* the earlier child and its promise.
EarlierClose ==
    /\ earlier.child.state = "exited"
    /\ activeProcess' = "null"
    /\ earlier' = [child |-> [earlier.child EXCEPT !.state = "closed"],
                   call |-> Settle(earlier.call, CloseOutcome(earlier.child))]
    /\ UNCHANGED <<python, pending, words, btnTranscribe, engineVars, builderVars,
                   mainVars, rendererVars, viewVars>>

ConcurrentNext ==
    \/ TranscribeAudio \/ TranscribeAudioAgain \/ PythonExits \/ SigtermDelivered
    \/ CloseHandler \/ EarlierExits \/ EarlierClose
    \/ CancelTranscription \/ PauseTranscription \/ ResumeTranscription

ConcurrentSpec == MainInit /\ [][ConcurrentNext]_vars

\* C37: whenever a child spawned by transcribe-audio has not ended,
\* activeProcess refers to a process that has not ended (so cancel, pause
\* and resume reach it and return true), and activeProcess is null exactly
\* when no transcription process is running.
C37_ActiveProcessTracksRunning ==
    /\ (Running(python) \/ Running(earlier.child)) => Alive
    /\ (activeProcess = "null") <=> ~(Running(python) \/ Running(earlier.child))

\* ----------------------------------- renderer: transcript, players, detail

\* How many word clicks a session makes.
MaxClicks == 2

DETAIL_PAD_BEFORE == 250

DETAIL_PAD_AFTER == 250

\* The shortest detail window.
MinDetailDur == 50

\* The bias timeupdate adds before it compares with the word boundaries.
TimeBias == 10

\* How far before the region's end the region-stop timer seeks.
RegionStopEps == 1

\* Another audio file the user can choose.
OtherAudioPath == "interview.wav"

\* The playback times timeupdate reports.
TimeUpdates == {0, 390, 1000, 2000}

\* computeDetailWindow(start, end), without its assignment to
\* detailWinStartAbs.
computeDetailWindow(start, end) ==
    [winStart |-> Max(0, start - DETAIL_PAD_BEFORE),
     winDur |-> Max(Max(0, start - DETAIL_PAD_BEFORE) + MinDetailDur,
                    end + DETAIL_PAD_AFTER) - Max(0, start - DETAIL_PAD_BEFORE)]

\* loadDetailForRange(start, end) up to its first await: the window is
\* computed, detailWinStartAbs is assigned, make-snippet is invoked.
loadDetailForRange(start, end) ==
    IF audioPath = "null"
    THEN /\ clicked' = [clicked EXCEPT !.count = @ + 1]
         /\ UNCHANGED <<detailWinStartAbs, snippets>>
    ELSE \E win \in {computeDetailWindow(start, end)} :
            \E call \in {[snippet |-> [path |-> audioPath, start |-> win.winStart,
                                       dur |-> win.winDur, file |-> clicked.count + 1],
                          region |-> [start |-> start - win.winStart,
                                      end |-> end - win.winStart]]} :
               /\ detailWinStartAbs' = win.winStart
               /\ snippets' = snippets \cup {call}
               /\ clicked' = [count |-> clicked.count + 1, snippet |-> call.snippet,
                              region |-> call.region]

\* The click handler of the span of index i, up to its await.
WordClick(i, shiftKey) ==
    /\ clicked.count < MaxClicks
    /\ i \in 0..(Len(transcriptEl) - 1)
    /\ \E sel \in {IF shiftKey /\ selectionAnchor # Null
                   THEN setSelectionRange(Selection, selectionAnchor, i)
                   ELSE setSelectionRange([Selection EXCEPT !.anchor = i], i, i)} :
          /\ selectionStart' = sel.start
          /\ selectionEnd' = sel.end
          /\ selectionAnchor' = sel.anchor
          /\ loadDetailForRange(transcriptEl[sel.start + 1].start,
                                transcriptEl[sel.end + 1].end)
    /\ ws' = [ws EXCEPT !.time = transcriptEl[i + 1].start + SEEK_EPS]
    /\ playheadIndex' = i
    /\ computedFrom' = [selection |-> transcribedFrom, playhead |-> transcribedFrom]
    /\ UNCHANGED <<audioPath, transcribedFrom, transcriptEl, wsDetail, detailRegion,
                   regionStopTimer, timers, earlier, engineVars, builderVars, mainVars,
                   transcribeVars, rendererVars>>

ClickWord == \E i \in 0..2, shiftKey \in BOOLEAN : WordClick(i, shiftKey)

\* The index timeupdate finds for the time t: the first word of the list
\* that holds t + bias, or -1.
WordIndexAt(list, t) ==
    IF \E i \in 1..Len(list) : t + TimeBias >= list[i].start /\ t + TimeBias < list[i].end
    THEN (CHOOSE i \in 1..Len(list) :
             /\ t + TimeBias >= list[i].start /\ t + TimeBias < list[i].end
             /\ \A j \in 1..(i - 1) :
                   ~(t + TimeBias >= list[j].start /\ t + TimeBias < list[j].end)) - 1
    ELSE -1

\* ws.on("timeupdate")
TimeUpdate ==
    /\ \E t \in TimeUpdates :
          /\ ws' = [ws EXCEPT !.time = t]
          /\ playheadIndex' = WordIndexAt(words, t)
          /\ computedFrom' = [computedFrom EXCEPT
                                 !.playhead = IF WordIndexAt(words, t) = -1 THEN "null"
                                              ELSE transcribedFrom]
    /\ UNCHANGED <<audioPath, transcribedFrom, transcriptEl, selectionStart, selectionEnd,
                   selectionAnchor, detailVars, earlier, engineVars, builderVars,
                   mainVars, transcribeVars, rendererVars>>

\* btnChoose click handler: the transcript element is emptied, the chooser
\* returns a path or null, and the audio is loaded into the main player.
ChooseAudioFile ==
    /\ ~btnTranscribe.awaiting
    /\ transcriptEl' = <<>>
    /\ \E chosen \in {SourcePath, OtherAudioPath, "null"} :
          /\ audioPath' = chosen
          /\ btnTranscribe' = [btnTranscribe EXCEPT !.disabled = (chosen = "null")]
          /\ ws' = IF chosen = "null" THEN ws ELSE [media |-> chosen, time |-> 0]
    /\ UNCHANGED <<activeProcess, python, pending, words, transcribedFrom, selectionVars,
                   detailVars, earlier, engineVars, builderVars, mainVars, rendererVars>>

\* otter.makeSnippet resolves for one of the calls in flight, in any order:
\* the rest of loadDetailForRange pauses the detail player, enables its
\* buttons, registers the once("ready") handler and calls load.
SnippetMade ==
    \E call \in snippets :
       /\ snippets' = snippets \ {call}
       /\ wsDetail' = [wsDetail EXCEPT !.playback = "paused", !.enabled = TRUE,
                                       !.once = Append(@, call.region),
                                       !.loading = @ \cup {call.snippet}, !.by = "load"]
       /\ UNCHANGED <<detailWinStartAbs, detailRegion, regionStopTimer, timers, clicked,
                      audioPath, transcribedFrom, transcriptEl, ws, selectionVars, earlier,
                      engineVars, builderVars, mainVars, transcribeVars, rendererVars>>

\* One of the loads of the detail player completes: its media is the
\* player's media, and "ready" runs the once handlers registered so far,
\* each of which replaces the region and seeks to its start.
DetailReady ==
    \E loaded \in wsDetail.loading :
       /\ wsDetail' = [wsDetail EXCEPT
                          !.loading = @ \ {loaded}, !.media = loaded, !.once = <<>>,
                          !.playback = "paused", !.by = "ready",
                          !.time = IF wsDetail.once = <<>> THEN 0
                                   ELSE wsDetail.once[Len(wsDetail.once)].start]
       /\ detailRegion' = IF wsDetail.once = <<>> THEN detailRegion
                          ELSE wsDetail.once[Len(wsDetail.once)]
       /\ UNCHANGED <<snippets, detailWinStartAbs, regionStopTimer, timers, clicked,
                      audioPath, transcribedFrom, transcriptEl, ws, selectionVars, earlier,
                      engineVars, builderVars, mainVars, transcribeVars, rendererVars>>

\* clearRegionStopTimer(): the timeouts left pending.
clearRegionStopTimer(handle, pending_) ==
    IF handle # Null THEN {t \in pending_ : t.id # handle} ELSE pending_

\* An unused timeout id.
NextTimerId == IF regionStopTimer = 1 THEN 2 ELSE 1

\* btnRegion.onclick
PlayRegion ==
    /\ wsDetail.enabled
    /\ detailRegion # NoRegion
    /\ wsDetail' = [wsDetail EXCEPT !.playback = "region", !.time = detailRegion.start,
                                    !.by = "region"]
    /\ timers' = clearRegionStopTimer(regionStopTimer, timers)
                    \cup {[id |-> NextTimerId, end |-> detailRegion.end,
                           media |-> wsDetail.media]}
    /\ regionStopTimer' = NextTimerId
    /\ UNCHANGED <<snippets, detailWinStartAbs, detailRegion, clicked, audioPath,
                   transcribedFrom, transcriptEl, ws, selectionVars, earlier, engineVars,
                   builderVars, mainVars, transcribeVars, rendererVars>>

\* The callback of a region-stop timeout runs.
RegionStopTimerFires ==
    \E t \in timers :
       /\ timers' = timers \ {t}
       /\ wsDetail' = [wsDetail EXCEPT !.playback = "paused",
                                       !.time = Max(0, t.end - RegionStopEps),
                                       !.by = "timer"]
       /\ regionStopTimer' = Null
       /\ UNCHANGED <<snippets, detailWinStartAbs, detailRegion, clicked, audioPath,
                      transcribedFrom, transcriptEl, ws, selectionVars, earlier,
                      engineVars, builderVars, mainVars, transcribeVars, rendererVars>>

\* btnDetailPlay.onclick
PlayPauseDetail ==
    /\ wsDetail.enabled
    /\ timers' = clearRegionStopTimer(regionStopTimer, timers)
    /\ regionStopTimer' = Null
    /\ wsDetail' = [wsDetail EXCEPT
                       !.time = IF wsDetail.media.dur # 0
                                   /\ wsDetail.time >= wsDetail.media.dur - 20
                                THEN 0 ELSE @,
                       !.playback = IF @ = "paused" THEN "detail" ELSE "paused",
                       !.by = "detail"]
    /\ UNCHANGED <<snippets, detailWinStartAbs, detailRegion, clicked, audioPath,
                   transcribedFrom, transcriptEl, ws, selectionVars, earlier, engineVars,
                   builderVars, mainVars, transcribeVars, rendererVars>>

\* The detail player plays to the end of its media.
DetailFinish ==
    /\ wsDetail.playback # "paused"
    /\ wsDetail.media # NoSnippet
    /\ wsDetail' = [wsDetail EXCEPT !.playback = "paused", !.time = wsDetail.media.dur,
                                    !.by = "finish"]
    /\ UNCHANGED <<snippets, detailWinStartAbs, detailRegion, regionStopTimer, timers,
                   clicked, audioPath, transcribedFrom, transcriptEl, ws, selectionVars,
                   earlier, engineVars, builderVars, mainVars, transcribeVars,
                   rendererVars>>

\* The renderer with its transcript: transcriptions, file choices, word
\* clicks and the main player's time updates.
TranscriptViewNext ==
    \/ ClickTranscribe \/ StdoutData \/ PythonExits \/ CloseHandler \/ TranscribeSettled
    \/ ChooseAudioFile \/ ClickWord \/ TimeUpdate

TranscriptViewSpec == MainInit /\ [][TranscriptViewNext]_vars

\* The detail view: one transcription, then word clicks, snippet loads and
\* the detail player's buttons and timer.
DetailViewNext ==
    \/ ClickTranscribe \/ StdoutData \/ PythonExits \/ CloseHandler \/ TranscribeSettled
    \/ ClickWord \/ SnippetMade \/ DetailReady
    \/ PlayRegion \/ RegionStopTimerFires \/ PlayPauseDetail \/ DetailFinish

DetailViewSpec == MainInit /\ [][DetailViewNext]_vars

\* C38: the renderer's selection is well-formed in every reachable state:
\* selectionStart, selectionEnd and selectionAnchor are all null, or
\* 0 <= selectionStart <= selectionAnchor <= selectionEnd < words.length;
\* and playheadIndex lies in [-1, words.length).
C38_SelectionWellFormed ==
    /\ \/ selectionStart = Null /\ selectionEnd = Null /\ selectionAnchor = Null
       \/ /\ 0 <= selectionStart
          /\ selectionStart <= selectionAnchor
          /\ selectionAnchor <= selectionEnd
          /\ selectionEnd < Len(words)
    /\ playheadIndex >= -1
    /\ playheadIndex < Len(words)

\* A shift-click on the first word extended the selection backwards from an
\* anchor on the third.
C38_Witness ==
    /\ clicked.count = 2
    /\ selectionAnchor = 2
    /\ selectionStart = 0
    /\ selectionEnd = 2
    /\ playheadIndex = 0

\* C40: transcript-derived state never crosses audio files: the word list,
\* the selection range and the playhead index the renderer highlights and
\* seeks with are those of the chosen file's transcript, never those of a
\* file chosen before (also after the chooser was cancelled).
C40_NoStateAcrossFiles ==
    /\ words # <<>> => transcribedFrom = audioPath
    /\ selectionStart # Null => computedFrom.selection = audioPath
    /\ playheadIndex # -1 => computedFrom.playhead = audioPath

\* C39: detail loads are last-click-wins: once every pending load has
\* finished, the snippet loaded in the detail player, the highlighted region
\* and detailWinStartAbs are those of the most recently clicked selection,
\* and one region exists.
C39_LastClickWins ==
    (clicked.count > 0 /\ snippets = {} /\ wsDetail.loading = {}) =>
        /\ wsDetail.media = clicked.snippet
        /\ detailRegion = clicked.region
        /\ detailRegion # NoRegion
        /\ detailWinStartAbs = clicked.snippet.start

\* The steps of the detail player's two buttons and of the timer's callback.
PlayRegionStep == wsDetail'.by = "region" /\ timers' # timers

PlayPauseDetailStep == wsDetail'.by = "detail" /\ wsDetail' # wsDetail

RegionStopTimerStep == wsDetail'.by = "timer" /\ timers' # timers

\* C35: at most one region-stop timer is pending; Play Region cancels a
\* pending timer before it arms its own; Play/Pause Detail cancels any
\* pending timer; and a region-stop timer pauses and seeks only the Play
\* Region playback that armed it: not a full-detail playback started later,
\* and not a snippet loaded after the timer was armed.
C35_RegionStopTimerIsolated ==
    /\ [](Cardinality(timers) <= 1)
    /\ [][PlayRegionStep =>
             /\ Cardinality(timers') = 1
             /\ \A t \in timers' : t.id = regionStopTimer' /\ t.media = wsDetail'.media]_vars
    /\ [][PlayPauseDetailStep => timers' = {} /\ regionStopTimer' = Null]_vars
    /\ [][RegionStopTimerStep =>
             \A t \in timers \ timers' :
                /\ t.media = wsDetail.media
                /\ wsDetail.playback # "detail"]_vars

====
